---- MODULE Spec2Model ----
(***************************************************************************)
(* A model of the daily planner: the Express/SQLite state API of           *)
(* server.js (normalizeState, GET/PUT /api/state, the startup sequence)    *)
(* and the React client that follows it in the same file (normalizeState,  *)
(* the load effect, the task, category and pomodoro handlers).             *)
(*                                                                         *)
(* JavaScript values are modelled as tagged records so that the coercions  *)
(* the code relies on (String(x), x || d, Boolean(x), Number(x), trim,     *)
(* the colour regular expression) are computed and never assumed:          *)
(*   scalars  [t, n, s]   t the typeof tag, n an integer, s the characters *)
(*   arrays   [t |-> "array", a |-> <<items>>]                             *)
(*   objects with fixed field names   [t |-> "object", f |-> [name |-> v]] *)
(*   objects with data keys           [t |-> "map", e |-> <<[k, v]>>]      *)
(* A string is a sequence of one-character strings.  A missing property is *)
(* the value undefined, as JSON.stringify and property reads treat it.     *)
(***************************************************************************)
EXTENDS Integers, Sequences, FiniteSets, TLC

----------------------------------------------------------------------------
(* Characters and strings *)

Digits == <<"0", "1", "2", "3", "4", "5", "6", "7", "8", "9">>

IsDigit(c) == \E i \in 1..10 : Digits[i] = c

DigitVal(c) == (CHOOSE i \in 1..10 : Digits[i] = c) - 1

RECURSIVE NatToStr(_)
NatToStr(n) ==
    IF n < 10 THEN <<Digits[n + 1]>>
    ELSE NatToStr(n \div 10) \o <<Digits[(n % 10) + 1]>>

IntToStr(n) == IF n < 0 THEN <<"-">> \o NatToStr(0 - n) ELSE NatToStr(n)

RECURSIVE DigitsToNat(_)
DigitsToNat(s) ==
    IF s = <<>> THEN 0
    ELSE 10 * DigitsToNat(SubSeq(s, 1, Len(s) - 1)) + DigitVal(s[Len(s)])

AllDigits(s) == s # <<>> /\ \A i \in 1..Len(s) : IsDigit(s[i])

Whitespace == {" ", "\t", "\n"}

RECURSIVE TrimStart(_)
TrimStart(s) ==
    IF s # <<>> /\ s[1] \in Whitespace THEN TrimStart(Tail(s)) ELSE s

RECURSIVE TrimEnd(_)
TrimEnd(s) ==
    IF s # <<>> /\ s[Len(s)] \in Whitespace
    THEN TrimEnd(SubSeq(s, 1, Len(s) - 1)) ELSE s

\* String.prototype.trim
Trim(s) == TrimEnd(TrimStart(s))

HexChars ==
    {"0", "1", "2", "3", "4", "5", "6", "7", "8", "9",
     "a", "b", "c", "d", "e", "f", "A", "B", "C", "D", "E", "F"}

\* /^#[0-9a-fA-F]{6}$/.test(s)
IsHexColor(s) ==
    /\ Len(s) = 7
    /\ s[1] = "#"
    /\ \A i \in 2..7 : s[i] \in HexChars

DEFAULT_CATEGORY_COLOR == <<"#", "4", "f", "8", "d", "f", "d">>

General == <<"G", "e", "n", "e", "r", "a", "l">>

----------------------------------------------------------------------------
(* JavaScript values *)

JUndef == [t |-> "undefined", n |-> 0, s |-> <<>>]
JNull == [t |-> "null", n |-> 0, s |-> <<>>]
JBool(b) == [t |-> "boolean", n |-> IF b THEN 1 ELSE 0, s |-> <<>>]
JNum(k) == [t |-> "number", n |-> k, s |-> <<>>]
JNaN == [t |-> "number", n |-> 0, s |-> <<"N", "a", "N">>]
JStr(x) == [t |-> "string", n |-> 0, s |-> x]
JArr(items) == [t |-> "array", a |-> items]
JObj(fields) == [t |-> "object", f |-> fields]
JMap(entries) == [t |-> "map", e |-> entries]
\* the outcome of an evaluation that raised a TypeError
Threw == [t |-> "throw", n |-> 0, s |-> <<>>]

IsNaN(v) == v.t = "number" /\ v.s # <<>>

\* typeof v === "object" (null excluded by the callers' truthiness test)
IsObjectType(v) == v.t \in {"object", "map", "array", "null"}

\* Boolean(v), the truthiness used by ||, ! and filter(Boolean)
Truthy(v) ==
    CASE v.t \in {"undefined", "null", "throw"} -> FALSE
      [] v.t = "boolean" -> v.n = 1
      [] v.t = "number" -> v.s = <<>> /\ v.n # 0
      [] v.t = "string" -> v.s # <<>>
      [] OTHER -> TRUE

\* a || d
Or(v, d) == IF Truthy(v) THEN v ELSE d

RECURSIVE JoinComma(_)
RECURSIVE ToStr(_)
\* String(v): the characters of the string conversion
ToStr(v) ==
    CASE v.t = "undefined" -> <<"u", "n", "d", "e", "f", "i", "n", "e", "d">>
      [] v.t = "null" -> <<"n", "u", "l", "l">>
      [] v.t = "boolean" ->
            IF v.n = 1 THEN <<"t", "r", "u", "e">>
            ELSE <<"f", "a", "l", "s", "e">>
      [] v.t = "number" -> IF v.s # <<>> THEN v.s ELSE IntToStr(v.n)
      [] v.t = "string" -> v.s
      [] v.t = "array" -> JoinComma(v.a)
      [] OTHER -> <<"[", "o", "b", "j", "e", "c", "t", " ",
                    "O", "b", "j", "e", "c", "t", "]">>

\* Array.prototype.join(","): null and undefined items give the empty string
JoinComma(items) ==
    IF items = <<>> THEN <<>>
    ELSE LET head == IF items[1].t \in {"undefined", "null"} THEN <<>>
                     ELSE ToStr(items[1])
         IN  IF Len(items) = 1 THEN head
             ELSE head \o <<",">> \o JoinComma(Tail(items))

\* the numeric value of a string: blank is 0, an optionally signed run of
\* decimal digits is that integer, anything else NaN
StrToNum(s) ==
    LET x == Trim(s)
    IN  IF x = <<>> THEN JNum(0)
        ELSE IF AllDigits(x) THEN JNum(DigitsToNat(x))
        ELSE IF x[1] = "-" /\ AllDigits(Tail(x)) THEN JNum(0 - DigitsToNat(Tail(x)))
        ELSE JNaN

\* Number(v)
ToNum(v) ==
    CASE v.t = "undefined" -> JNaN
      [] v.t = "null" -> JNum(0)
      [] v.t = "boolean" -> JNum(v.n)
      [] v.t = "number" -> v
      [] v.t = "string" -> StrToNum(v.s)
      [] v.t = "array" -> StrToNum(ToStr(v))
      [] OTHER -> JNaN

\* JSON.parse(JSON.stringify(v)): NaN is written as null, an undefined
\* property is left out (and reads back as undefined)
RECURSIVE Json(_)
Json(v) ==
    CASE v.t = "number" -> IF IsNaN(v) THEN JNull ELSE v
      [] v.t = "array" ->
            JArr([i \in 1..Len(v.a) |->
                    IF v.a[i].t = "undefined" THEN JNull ELSE Json(v.a[i])])
      [] v.t = "object" ->
            JObj([k \in {x \in DOMAIN v.f : v.f[x].t # "undefined"} |-> Json(v.f[k])])
      [] v.t = "map" ->
            JMap([i \in 1..Len(v.e) |-> [k |-> v.e[i].k, v |-> Json(v.e[i].v)]])
      [] OTHER -> v

\* v.name: undefined on a value without that property, a TypeError on
\* null and undefined
Prop(v, name) ==
    CASE v.t \in {"undefined", "null", "throw"} -> Threw
      [] v.t = "object" -> IF name \in DOMAIN v.f THEN v.f[name] ELSE JUndef
      [] OTHER -> JUndef

\* v?.name
OptProp(v, name) ==
    IF v.t \in {"undefined", "null"} THEN JUndef ELSE Prop(v, name)

----------------------------------------------------------------------------
(* Clock, id generator, plain objects *)

\* getTodayDateIST(): the calendar day of the fixed civil reference
Today == <<"2", "0", "2", "6", "-", "1", "1", "-", "0", "3">>

\* randomUUID(): the k-th identifier the generator hands out
Uuid(k) == <<"u", "u", "i", "d", "-">> \o NatToStr(k)

\* property names every plain object inherits from Object.prototype
ObjectPrototypeKeys ==
    {<<"c", "o", "n", "s", "t", "r", "u", "c", "t", "o", "r">>,
     <<"t", "o", "S", "t", "r", "i", "n", "g">>,
     <<"v", "a", "l", "u", "e", "O", "f">>,
     <<"_", "_", "p", "r", "o", "t", "o", "_", "_">>}

ProtoKey == <<"_", "_", "p", "r", "o", "t", "o", "_", "_">>

HasOwn(entries, key) == \E i \in 1..Len(entries) : entries[i].k = key

OwnValue(entries, key) ==
    entries[CHOOSE i \in 1..Len(entries) :
                /\ entries[i].k = key
                /\ \A j \in (i + 1)..Len(entries) : entries[j].k # key].v

\* obj[key] on a plain object literal: an own property, else what
\* Object.prototype supplies (a function or the prototype itself: truthy)
PlainGet(entries, key) ==
    IF HasOwn(entries, key) THEN OwnValue(entries, key)
    ELSE IF key \in ObjectPrototypeKeys THEN JObj([inherited |-> JBool(TRUE)])
    ELSE JUndef

\* obj[key] = value on a plain object literal: the __proto__ setter ignores
\* a primitive, any other key becomes (or updates) an own property
PlainSet(entries, key, value) ==
    IF key = ProtoKey THEN entries
    ELSE IF HasOwn(entries, key)
    THEN [i \in 1..Len(entries) |->
            IF entries[i].k = key THEN [k |-> key, v |-> value] ELSE entries[i]]
    ELSE Append(entries, [k |-> key, v |-> value])

\* Object.entries(v) of a parsed JSON value
ObjectEntries(v) ==
    CASE v.t = "map" -> v.e
      [] v.t = "array" ->
            [i \in 1..Len(v.a) |-> [k |-> NatToStr(i - 1), v |-> v.a[i]]]
      [] v.t = "object" -> <<>>
      [] OTHER -> <<>>

\* Array.from(new Set(xs)): first occurrences, in order
RECURSIVE Dedupe(_)
Dedupe(xs) ==
    IF xs = <<>> THEN <<>>
    ELSE LET front == Dedupe(SubSeq(xs, 1, Len(xs) - 1))
             last == xs[Len(xs)]
         IN  IF \E i \in 1..Len(front) : front[i] = last THEN front
             ELSE Append(front, last)

Includes(xs, x) == \E i \in 1..Len(xs) : xs[i] = x

RECURSIVE FilterNonEmpty(_)
FilterNonEmpty(xs) ==
    IF xs = <<>> THEN <<>>
    ELSE IF xs[1] = <<>> THEN FilterNonEmpty(Tail(xs))
    ELSE <<xs[1]>> \o FilterNonEmpty(Tail(xs))

----------------------------------------------------------------------------
(* server.js: normalizeState *)

defaultState ==
    JObj([tasks |-> JArr(<<>>),
          categories |-> JArr(<<JStr(General)>>),
          categoryColors |-> JMap(<<[k |-> General, v |-> JStr(DEFAULT_CATEGORY_COLOR)]>>),
          selectedDate |-> JStr(Today)])

\* lines 35-45: the category names
normalizeCategories(payload) ==
    LET given == OptProp(payload, "categories")
        categoriesInput == IF given.t = "array" THEN given.a ELSE defaultState.f.categories.a
        names == [i \in 1..Len(categoriesInput) |->
                    Trim(ToStr(Or(categoriesInput[i], JStr(<<>>))))]
        categories == Dedupe(FilterNonEmpty(names))
    IN  IF Includes(categories, General) THEN categories
        ELSE <<General>> \o categories

\* lines 47-57: the colours kept from the payload
RECURSIVE keepColors(_, _)
keepColors(acc, entries) ==
    IF entries = <<>> THEN acc
    ELSE LET category == Trim(ToStr(Or(JStr(entries[1].k), JStr(<<>>))))
             color == Trim(ToStr(Or(entries[1].v, JStr(<<>>))))
         IN  keepColors(IF category # <<>> /\ IsHexColor(color)
                        THEN PlainSet(acc, category, JStr(color))
                        ELSE acc,
                        Tail(entries))

\* lines 59-63: the default colour for a category without one
RECURSIVE fillColors(_, _)
fillColors(acc, categories) ==
    IF categories = <<>> THEN acc
    ELSE fillColors(IF ~Truthy(PlainGet(acc, categories[1]))
                    THEN PlainSet(acc, categories[1], JStr(DEFAULT_CATEGORY_COLOR))
                    ELSE acc,
                    Tail(categories))

normalizeCategoryColors(payload, categories) ==
    LET rawColors == OptProp(payload, "categoryColors")
        kept == IF Truthy(rawColors) /\ IsObjectType(rawColors)
                THEN keepColors(<<>>, ObjectEntries(rawColors))
                ELSE <<>>
    IN  fillColors(kept, categories)

\* line 67 without its `task &&`: typeof null is "object" too
isTaskObjectLoose(task) == IsObjectType(task)

\* line 67: the filter of safeTasks
isTaskObject(task) == Truthy(task) /\ IsObjectType(task)

\* lines 68-82: one entry of safeTasks; id is what randomUUID() would return
safeTask(task, categories, now, id) ==
    IF Prop(task, "id").t = "throw" THEN Threw
    ELSE JObj([
        id |-> JStr(ToStr(Or(Prop(task, "id"), JStr(id)))),
        name |-> JStr(ToStr(Or(Prop(task, "name"), JStr(<<>>)))),
        description |-> JStr(ToStr(Or(Prop(task, "description"), JStr(<<>>)))),
        priority |-> JStr(ToStr(Or(Prop(task, "priority"), JStr(<<"M", "e", "d", "i", "u", "m">>)))),
        category |->
            IF Includes(categories, ToStr(Or(Prop(task, "category"), JStr(<<>>))))
            THEN JStr(ToStr(Prop(task, "category")))
            ELSE JStr(General),
        taskType |-> JStr(ToStr(Or(Prop(task, "taskType"), JStr(<<"W", "o", "r", "k">>)))),
        meetingTime |-> JStr(ToStr(Or(Prop(task, "meetingTime"), JStr(<<>>)))),
        date |-> JStr(ToStr(Or(Prop(task, "date"), JStr(Today)))),
        done |-> JBool(Truthy(Prop(task, "done"))),
        hidden |-> JBool(Truthy(Prop(task, "hidden"))),
        createdAt |-> ToNum(Or(Prop(task, "createdAt"), JNum(now)))])

\* lines 66-82: filter then map; uuid counts the identifiers drawn so far
RECURSIVE safeTasks(_, _, _, _)
safeTasks(tasks, categories, now, uuid) ==
    IF tasks = <<>> THEN <<>>
    ELSE IF ~isTaskObject(tasks[1]) THEN safeTasks(Tail(tasks), categories, now, uuid)
    ELSE <<safeTask(tasks[1], categories, now, Uuid(uuid))>>
         \o safeTasks(Tail(tasks), categories, now,
                      IF Truthy(Prop(tasks[1], "id")) THEN uuid ELSE uuid + 1)

\* lines 34-90
normalizeState(payload, now, uuid) ==
    LET categories == normalizeCategories(payload)
        categoryColors == normalizeCategoryColors(payload, categories)
        given == OptProp(payload, "tasks")
        tasks == IF given.t = "array" THEN given.a ELSE <<>>
        safe == safeTasks(tasks, categories, now, uuid)
    IN  IF \E i \in 1..Len(safe) : safe[i].t = "throw" THEN Threw
        ELSE JObj([
            tasks |-> JArr(safe),
            categories |-> JArr([i \in 1..Len(categories) |-> JStr(categories[i])]),
            categoryColors |-> JMap(categoryColors),
            selectedDate |-> JStr(ToStr(Or(OptProp(payload, "selectedDate"), JStr(Today))))])

----------------------------------------------------------------------------
(* client: createDefaultState, normalizePomodoroTimers, buildCategoryColors, *)
(* normalizeState                                                            *)

DEFAULT_POMODORO_SECONDS == 1800

Priority == <<"p", "r", "i", "o", "r", "i", "t", "y">>
Manual == <<"m", "a", "n", "u", "a", "l">>

ALLOWED_SORT_BY ==
    {Priority,
     <<"c", "a", "t", "e", "g", "o", "r", "y">>,
     <<"t", "a", "s", "k", "T", "y", "p", "e">>,
     <<"c", "r", "e", "a", "t", "e", "d", "A", "t">>,
     Manual}

Max(a, b) == IF a > b THEN a ELSE b
Min(a, b) == IF a < b THEN a ELSE b

\* lines 275-290: one normalized timer
normalizeTimer(timer) ==
    LET durationCandidate == ToNum(Prop(timer, "durationSeconds"))
        durationSeconds ==
            IF ~IsNaN(durationCandidate) /\ durationCandidate.n > 0
            THEN durationCandidate.n ELSE DEFAULT_POMODORO_SECONDS
        remainingCandidate == ToNum(Prop(timer, "remainingSeconds"))
        remainingSeconds ==
            IF ~IsNaN(remainingCandidate)
            THEN Max(0, Min(durationSeconds, remainingCandidate.n))
            ELSE durationSeconds
    IN  JObj([remainingSeconds |-> JNum(remainingSeconds),
              durationSeconds |-> JNum(durationSeconds),
              isRunning |-> JBool(Truthy(Prop(timer, "isRunning"))
                                  /\ remainingSeconds > 0)])

RECURSIVE normalizeTimerEntries(_, _)
normalizeTimerEntries(acc, entries) ==
    IF entries = <<>> THEN acc
    ELSE LET taskId == entries[1].k
             timer == entries[1].v
         IN  normalizeTimerEntries(
                IF taskId = <<>> \/ ~Truthy(timer) \/ ~IsObjectType(timer) THEN acc
                ELSE PlainSet(acc, taskId, normalizeTimer(timer)),
                Tail(entries))

\* lines 268-294
normalizePomodoroTimers(rawTimers) ==
    IF ~Truthy(rawTimers) \/ ~IsObjectType(rawTimers) THEN JMap(<<>>)
    ELSE JMap(normalizeTimerEntries(<<>>, ObjectEntries(rawTimers)))

\* lines 296-306
createDefaultState ==
    JObj([tasks |-> JArr(<<>>),
          categories |-> JArr(<<JStr(General)>>),
          categoryColors |-> JMap(<<[k |-> General, v |-> JStr(DEFAULT_CATEGORY_COLOR)]>>),
          selectedDate |-> JStr(Today),
          sortBy |-> JStr(Priority),
          pomodoroTimers |-> JMap(<<>>)])

RECURSIVE keepColorsClient(_, _)
keepColorsClient(acc, entries) ==
    IF entries = <<>> THEN acc
    ELSE LET value == Trim(ToStr(Or(entries[1].v, JStr(<<>>))))
         IN  keepColorsClient(IF IsHexColor(value)
                              THEN PlainSet(acc, entries[1].k, JStr(value))
                              ELSE acc,
                              Tail(entries))

\* lines 308-320; categories is a sequence of names
buildCategoryColors(rawCategoryColors, categories) ==
    LET kept == IF Truthy(rawCategoryColors) /\ IsObjectType(rawCategoryColors)
                THEN keepColorsClient(<<>>, ObjectEntries(rawCategoryColors))
                ELSE <<>>
    IN  JMap(fillColors(kept, IF categories # <<>> THEN categories ELSE <<General>>))

\* lines 322-339
normalizeStateClient(raw) ==
    LET fallback == createDefaultState
        givenTasks == Prop(raw, "tasks")
        givenCategories == Prop(raw, "categories")
        categories ==
            IF givenCategories.t = "array"
            THEN Dedupe(FilterNonEmpty(
                    [i \in 1..Len(givenCategories.a) |->
                        Trim(ToStr(Or(givenCategories.a[i], JStr(<<>>))))]))
            ELSE [i \in 1..Len(fallback.f.categories.a) |-> fallback.f.categories.a[i].s]
        selectedDate == Prop(raw, "selectedDate")
        sortBy == Prop(raw, "sortBy")
    IN  IF ~Truthy(raw) \/ ~IsObjectType(raw) THEN fallback
        ELSE JObj([
            tasks |-> IF givenTasks.t = "array" THEN givenTasks ELSE JArr(<<>>),
            categories |->
                IF categories # <<>>
                THEN JArr([i \in 1..Len(categories) |-> JStr(categories[i])])
                ELSE fallback.f.categories,
            categoryColors |-> buildCategoryColors(Prop(raw, "categoryColors"), categories),
            selectedDate |->
                IF selectedDate.t = "string" /\ Truthy(selectedDate)
                THEN selectedDate ELSE fallback.f.selectedDate,
            sortBy |->
                IF sortBy.t = "string" /\ sortBy.s \in ALLOWED_SORT_BY
                THEN sortBy ELSE fallback.f.sortBy,
            pomodoroTimers |-> normalizePomodoroTimers(Prop(raw, "pomodoroTimers"))])

----------------------------------------------------------------------------
(* client: dates, object helpers, the view *)

Work == <<"W", "o", "r", "k">>
Learning == <<"L", "e", "a", "r", "n", "i", "n", "g">>
Meeting == <<"M", "e", "e", "t", "i", "n", "g">>
High == <<"H", "i", "g", "h">>
Medium == <<"M", "e", "d", "i", "u", "m">>
Low == <<"L", "o", "w">>
All == <<"A", "l", "l">>
Pending == <<"P", "e", "n", "d", "i", "n", "g">>
Completed == <<"C", "o", "m", "p", "l", "e", "t", "e", "d">>

\* { ...obj, [name]: value } on an object with fixed field names
SetField(obj, name, value) ==
    JObj([k \in (DOMAIN obj.f) \cup {name} |-> IF k = name THEN value ELSE obj.f[k]])

\* { ...map, [key]: value }
MapSet(map, key, value) ==
    IF HasOwn(map.e, key)
    THEN JMap([i \in 1..Len(map.e) |->
                IF map.e[i].k = key THEN [k |-> key, v |-> value] ELSE map.e[i]])
    ELSE JMap(Append(map.e, [k |-> key, v |-> value]))

RECURSIVE WithoutKey(_, _)
WithoutKey(entries, key) ==
    IF entries = <<>> THEN <<>>
    ELSE IF entries[1].k = key THEN WithoutKey(Tail(entries), key)
    ELSE <<entries[1]>> \o WithoutKey(Tail(entries), key)

\* line 527 left out: the copy keeps every key
MapDeleteNothing(map, key) == map

\* delete map[key]
MapDelete(map, key) == JMap(WithoutKey(map.e, key))

\* map[key] on a value that came from JSON or from a spread: own entries only
MapGet(map, key) == IF HasOwn(map.e, key) THEN OwnValue(map.e, key) ELSE JUndef

\* the same object up to the order of its keys
MapKeys(map) == {map.e[i].k : i \in 1..Len(map.e)}
SameMap(m1, m2) ==
    /\ MapKeys(m1) = MapKeys(m2)
    /\ \A k \in MapKeys(m1) : MapGet(m1, k) = MapGet(m2, k)

IsLeapYear(y) == (y % 4 = 0 /\ y % 100 # 0) \/ y % 400 = 0

DaysInMonth(y, m) ==
    IF m = 2 THEN (IF IsLeapYear(y) THEN 29 ELSE 28)
    ELSE IF m \in {4, 6, 9, 11} THEN 30 ELSE 31

Pad(s, width) == IF Len(s) < width THEN [i \in 1..(width - Len(s)) |-> "0"] \o s ELSE s

IsIsoDate(s) ==
    /\ Len(s) = 10
    /\ s[5] = "-" /\ s[8] = "-"
    /\ \A i \in {1, 2, 3, 4, 6, 7, 9, 10} : IsDigit(s[i])
    /\ LET y == DigitsToNat(SubSeq(s, 1, 4))
           m == DigitsToNat(SubSeq(s, 6, 7))
           d == DigitsToNat(SubSeq(s, 9, 10))
       IN  y >= 1000 /\ m \in 1..12 /\ d \in 1..DaysInMonth(y, m)

\* lines 244-249, for a calendar date YYYY-MM-DD; a string whose parts are
\* not numbers makes toISOString raise a RangeError
getNextDate(dateStr) ==
    IF ~IsIsoDate(dateStr) THEN Threw
    ELSE LET y == DigitsToNat(SubSeq(dateStr, 1, 4))
             m == DigitsToNat(SubSeq(dateStr, 6, 7))
             d == DigitsToNat(SubSeq(dateStr, 9, 10))
             lastDay == d = DaysInMonth(y, m)
             y2 == IF lastDay /\ m = 12 THEN y + 1 ELSE y
             m2 == IF lastDay THEN (IF m = 12 THEN 1 ELSE m + 1) ELSE m
             d2 == IF lastDay THEN 1 ELSE d + 1
         IN  JStr(Pad(NatToStr(y2), 4) \o <<"-">> \o Pad(NatToStr(m2), 2)
                  \o <<"-">> \o Pad(NatToStr(d2), 2))

----------------------------------------------------------------------------
(* State *)

VARIABLES
    store,           \* server: the payload of the planner_state row, parsed
    net,             \* PUT /api/state requests sent and not yet handled
    load,            \* the load effect: its phase and the GET response
    data,            \* client: useState(createDefaultState)
    sortBy,          \* client: the sortBy view state
    pomodoroTimers,  \* client: the pomodoroTimers state
    timersSame,      \* client: data.pomodoroTimers === pomodoroTimers
    isStateLoaded,   \* client: the isStateLoaded state
    form,            \* client: the add-task form
    filters,         \* client: filterType, filterCategory, filterStatus, showAllTasks
    alerted,         \* client: the text of the last alert() shown, if any
    uuid,            \* identifiers drawn from randomUUID() so far
    clock,           \* Date.now()
    input,           \* argument of a function applied on its own
    result,          \* its result
    again,           \* the result of applying it to its own result
    pc               \* which function was applied

vars == <<store, net, load, data, sortBy, pomodoroTimers, timersSame,
          isStateLoaded, form, filters, alerted, uuid, clock, input, result, again, pc>>

clientVars ==
    <<data, sortBy, pomodoroTimers, timersSame, isStateLoaded, form, filters, alerted>>
serverVars == <<store>>
pureVars == <<input, result, again, pc>>

\* most identifiers drawn (tasks created) in one run
MaxTasks == 2

\* lines 379-389: the initial form
initialForm ==
    [taskName |-> <<>>,
     taskDescription |-> <<>>,
     priority |-> Medium,
     category |-> General,
     taskType |-> Work,
     taskDate |-> Today,
     meetingHour |-> <<"0", "9">>,
     meetingMinute |-> <<"0", "0">>,
     meetingAmPm |-> <<"A", "M">>]

\* lines 362-365: the filters of a freshly mounted App
initialFilters == [type |-> All, category |-> All, status |-> All, showAll |-> FALSE]

\* lines 402-404: the load effect has sent its GET
initialLoad == [phase |-> "fetching", resp |-> [status |-> 0, body |-> JUndef]]

\* lines 356-389: the state of a freshly mounted App
ClientInit ==
    /\ data = createDefaultState
    /\ sortBy = Priority
    /\ pomodoroTimers = JMap(<<>>)
    /\ timersSame = FALSE
    /\ isStateLoaded = FALSE
    /\ form = initialForm
    /\ filters = initialFilters
    /\ alerted = <<>>
    /\ load = initialLoad

\* lines 92-121: the server has started on an empty data directory
ServerInit == store = Json(defaultState)

NoPure == input = JUndef /\ result = JUndef /\ again = JUndef

Init ==
    /\ ServerInit
    /\ ClientInit
    /\ net = {}
    /\ uuid = 0
    /\ clock = 1
    /\ NoPure
    /\ pc = "system"

----------------------------------------------------------------------------
(* server.js: the startup sequence and the /api/state handlers *)

\* lines 105-121, run again on a data directory that holds a row
ServerRestart ==
    /\ store' = Json(defaultState)
    /\ UNCHANGED <<net, load, clientVars, uuid, clock, pureVars>>

\* identifiers normalizeState draws for these tasks
RECURSIVE UuidsDrawn(_)
UuidsDrawn(tasks) ==
    IF tasks = <<>> THEN 0
    ELSE (IF isTaskObject(tasks[1]) /\ ~Truthy(Prop(tasks[1], "id")) THEN 1 ELSE 0)
         + UuidsDrawn(Tail(tasks))

DrawnFor(payload) ==
    LET given == OptProp(payload, "tasks")
    IN  IF given.t = "array" THEN UuidsDrawn(given.a) ELSE 0

\* lines 140-155 without line 152: the fallback is answered and not written
getStateWithoutRepair(row, now, id) ==
    IF row.t = "norow" THEN [status |-> 404, body |-> JUndef, row |-> row]
    ELSE IF row.t = "unparseable"
    THEN [status |-> 200, body |-> Json(normalizeState(defaultState, now, id)), row |-> row]
    ELSE [status |-> 200, body |-> Json(normalizeState(row, now, id)), row |-> row]

\* lines 140-155: what GET /api/state answers and leaves in the row
getState(row, now, id) ==
    IF row.t = "norow" THEN [status |-> 404, body |-> JUndef, row |-> row]
    ELSE IF row.t = "unparseable"
    THEN LET fallback == normalizeState(defaultState, now, id)
         IN  [status |-> 200, body |-> Json(fallback), row |-> Json(fallback)]
    ELSE [status |-> 200, body |-> Json(normalizeState(row, now, id)), row |-> row]

ServerGet ==
    /\ load.phase = "fetching"
    /\ LET r == getState(store, clock, uuid)
       IN  /\ load' = [phase |-> "answered", resp |-> [status |-> r.status, body |-> r.body]]
           /\ store' = r.row
           /\ uuid' = uuid + (IF store.t \in {"norow", "unparseable"} THEN 0 ELSE DrawnFor(store))
    /\ UNCHANGED <<net, clientVars, clock, pureVars>>

\* lines 157-170: what PUT /api/state answers and leaves in the row
putState(row, body, now, id) ==
    IF ~Truthy(body) \/ ~IsObjectType(body) THEN [status |-> 400, row |-> row]
    ELSE LET safeState == normalizeState(body, now, id)
         IN  IF safeState.t = "throw" THEN [status |-> 500, row |-> row]
             ELSE [status |-> 200, row |-> Json(safeState)]

ServerPut(m) ==
    /\ m \in net
    /\ net' = net \ {m}
    /\ store' = putState(store, m, clock, uuid).row
    /\ uuid' = uuid + DrawnFor(m)
    /\ UNCHANGED <<load, clientVars, clock, pureVars>>

----------------------------------------------------------------------------
(* client: persist, the load effect, the timer effect *)

\* lines 391-400: persist(next, pomodoroTimersOverride)
Persist(next, timers) ==
    LET withTimers == SetField(next, "pomodoroTimers", timers)
    IN  /\ data' = withTimers
        /\ net' = net \cup {Json(withTimers)}
        /\ timersSame' = TRUE

\* lines 457-467: the effect on [pomodoroTimers, isStateLoaded]
TimerEffect(loaded, timers, same) ==
    IF loaded /\ ~same
    THEN LET next == SetField(data, "pomodoroTimers", timers)
         IN  /\ data' = next
             /\ net' = net \cup {Json(next)}
             /\ timersSame' = TRUE
    ELSE /\ UNCHANGED <<data, net>>
         /\ timersSame' = same

\* a || d on strings
StrOr(v, d) == IF Truthy(v) THEN ToStr(v) ELSE d

FirstCategory(doc) ==
    IF Len(doc.f.categories.a) > 0 THEN StrOr(doc.f.categories.a[1], General) ELSE General

\* lines 405-417: the fetch resolved with a 200 answer
LoadResolve ==
    /\ load.phase = "answered"
    /\ load.resp.status = 200
    /\ LET loaded == normalizeStateClient(load.resp.body)
           landingState == SetField(loaded, "selectedDate", JStr(Today))
       IN  /\ data' = landingState
           /\ sortBy' = StrOr(loaded.f.sortBy, Priority)
           /\ pomodoroTimers' = loaded.f.pomodoroTimers
           /\ form' = [form EXCEPT !.category = FirstCategory(loaded), !.taskDate = Today]
    /\ timersSame' = TRUE
    /\ isStateLoaded' = TRUE
    /\ load' = [load EXCEPT !.phase = "done"]
    /\ UNCHANGED <<store, net, filters, uuid, clock, alerted, pureVars>>

\* lines 418-421: the fetch failed, or answered other than 200
LoadFail ==
    /\ \/ load.phase = "fetching"
       \/ load.phase = "answered"
    /\ isStateLoaded' = TRUE
    /\ TimerEffect(TRUE, pomodoroTimers, timersSame)
    /\ load' = [load EXCEPT !.phase = "failed"]
    /\ UNCHANGED <<store, sortBy, pomodoroTimers, form, filters, uuid, clock, alerted, pureVars>>

\* the page is opened again: a fresh App, a fresh fetch
Remount ==
    /\ load.phase \in {"done", "failed"}
    /\ data' = createDefaultState
    /\ sortBy' = Priority
    /\ pomodoroTimers' = JMap(<<>>)
    /\ timersSame' = FALSE
    /\ isStateLoaded' = FALSE
    /\ form' = initialForm
    /\ filters' = initialFilters
    /\ alerted' = <<>>
    /\ load' = initialLoad
    /\ UNCHANGED <<store, net, uuid, clock, pureVars>>

----------------------------------------------------------------------------
(* client: the task list *)

Tasks == data.f.tasks.a

TaskId(task) == ToStr(Prop(task, "id"))

\* lines 801-809 without line 803: hidden tasks are listed too
isVisibleHiddenIncluded(task) ==
    /\ ToStr(Prop(task, "date")) = ToStr(data.f.selectedDate)
    /\ filters.type = All \/ ToStr(Prop(task, "taskType")) = filters.type
    /\ filters.category = All \/ ToStr(Prop(task, "category")) = filters.category
    /\ ~(filters.status = Pending /\ Truthy(Prop(task, "done")))
    /\ ~(filters.status = Completed /\ ~Truthy(Prop(task, "done")))

\* lines 801-809: the filter of visibleTasks
isVisible(task) ==
    /\ ToStr(Prop(task, "date")) = ToStr(data.f.selectedDate)
    /\ filters.showAll \/ ~Truthy(Prop(task, "hidden"))
    /\ filters.type = All \/ ToStr(Prop(task, "taskType")) = filters.type
    /\ filters.category = All \/ ToStr(Prop(task, "category")) = filters.category
    /\ ~(filters.status = Pending /\ Truthy(Prop(task, "done")))
    /\ ~(filters.status = Completed /\ ~Truthy(Prop(task, "done")))

filteredTasks == SelectSeq(Tasks, isVisible)

\* the tasks whose menu the user can open
VisibleIds == {TaskId(filteredTasks[i]) : i \in 1..Len(filteredTasks)}

\* data.tasks.map(task => task.id === taskId ? Change(task) : task)
MapTask(taskId, Change(_)) ==
    JArr([i \in 1..Len(Tasks) |->
            IF TaskId(Tasks[i]) = taskId THEN Change(Tasks[i]) ELSE Tasks[i]])

WithTasks(tasks) == SetField(data, "tasks", tasks)

\* lines 597-601
toggledTask(task) ==
    IF Truthy(Prop(task, "done")) \/ Truthy(Prop(task, "hidden"))
    THEN SetField(SetField(task, "done", JBool(FALSE)), "hidden", JBool(FALSE))
    ELSE SetField(SetField(task, "done", JBool(TRUE)), "hidden", JBool(TRUE))

\* lines 595-604
toggleDone(taskId) ==
    /\ Persist(WithTasks(MapTask(taskId, toggledTask)), pomodoroTimers)
    /\ UNCHANGED <<store, load, sortBy, pomodoroTimers, isStateLoaded, form, filters,
                   uuid, clock, alerted, pureVars>>

\* line 608
hiddenTask(task) == SetField(SetField(task, "hidden", JBool(TRUE)), "done", JBool(FALSE))

\* lines 606-611
hideTask(taskId) ==
    /\ Persist(WithTasks(MapTask(taskId, hiddenTask)), pomodoroTimers)
    /\ UNCHANGED <<store, load, sortBy, pomodoroTimers, isStateLoaded, form, filters,
                   uuid, clock, alerted, pureVars>>

\* line 615
restoredTask(task) == SetField(task, "hidden", JBool(FALSE))

\* lines 613-618
restoreTask(taskId) ==
    /\ Persist(WithTasks(MapTask(taskId, restoredTask)), pomodoroTimers)
    /\ UNCHANGED <<store, load, sortBy, pomodoroTimers, isStateLoaded, form, filters,
                   uuid, clock, alerted, pureVars>>

\* lines 623-628
movedTask(task) ==
    SetField(SetField(SetField(task, "date", getNextDate(ToStr(Prop(task, "date")))),
                      "done", JBool(FALSE)),
             "hidden", JBool(FALSE))

\* the next day of every task with this id can be computed
CanShift(taskId) ==
    \A i \in 1..Len(Tasks) :
        TaskId(Tasks[i]) = taskId => getNextDate(ToStr(Prop(Tasks[i], "date"))).t # "throw"

\* lines 620-632; a RangeError in getNextDate leaves the handler before persist
moveTaskToNextDay(taskId) ==
    /\ CanShift(taskId)
    /\ Persist(WithTasks(MapTask(taskId, movedTask)), pomodoroTimers)
    /\ UNCHANGED <<store, load, sortBy, pomodoroTimers, isStateLoaded, form, filters,
                   uuid, clock, alerted, pureVars>>

\* data.tasks.find(task => task.id === taskId)
FindTask(taskId) ==
    Tasks[CHOOSE i \in 1..Len(Tasks) :
            /\ TaskId(Tasks[i]) = taskId
            /\ \A j \in 1..(i - 1) : TaskId(Tasks[j]) # taskId]

\* lines 638-645
clonedTask(source, id, now) ==
    SetField(SetField(SetField(SetField(SetField(source,
        "id", JStr(id)),
        "date", getNextDate(ToStr(Prop(source, "date")))),
        "done", JBool(FALSE)),
        "hidden", JBool(FALSE)),
        "createdAt", JNum(now))

\* lines 634-648
cloneTaskToNextDay(taskId) ==
    /\ \E i \in 1..Len(Tasks) : TaskId(Tasks[i]) = taskId
    /\ getNextDate(ToStr(Prop(FindTask(taskId), "date"))).t # "throw"
    /\ Persist(WithTasks(JArr(Append(Tasks, clonedTask(FindTask(taskId), Uuid(uuid), clock)))),
               pomodoroTimers)
    /\ uuid' = uuid + 1
    /\ clock' = clock + 1
    /\ UNCHANGED <<store, load, sortBy, pomodoroTimers, isStateLoaded, form, filters, alerted, pureVars>>

----------------------------------------------------------------------------
(* client: the form and submitTask *)

\* lines 491-493
updateForm(field, value) ==
    /\ form' = [form EXCEPT ![field] = value]
    /\ UNCHANGED <<store, net, load, data, sortBy, pomodoroTimers, timersSame,
                   isStateLoaded, filters, uuid, clock, alerted, pureVars>>

\* lines 541-545
buildMeetingTime(f) ==
    IF f.taskType # Meeting THEN <<>>
    ELSE IF f.meetingHour = <<>> \/ f.meetingMinute = <<>> \/ f.meetingAmPm = <<>> THEN <<>>
    ELSE f.meetingHour \o <<":">> \o f.meetingMinute \o <<" ">> \o f.meetingAmPm
         \o <<" ", "I", "S", "T">>

\* the name taken as typed
hasNameAndDateUntrimmed(f) == f.taskName # <<>> /\ f.taskDate # <<>>

\* lines 550-552: a name and a date are needed
hasNameAndDate(f) == Trim(f.taskName) # <<>> /\ f.taskDate # <<>>

\* line 555
lacksMeetingTime(f) == f.taskType = Meeting /\ buildMeetingTime(f) = <<>>

\* line 556
MeetingAlert == <<"Meeting time is required for Meeting tasks.">>

\* lines 560-572
newTask(f, id, now) ==
    JObj([id |-> JStr(id),
          name |-> JStr(Trim(f.taskName)),
          description |-> JStr(Trim(f.taskDescription)),
          priority |-> JStr(f.priority),
          category |-> JStr(f.category),
          taskType |-> JStr(f.taskType),
          meetingTime |-> JStr(buildMeetingTime(f)),
          date |-> JStr(f.taskDate),
          done |-> JBool(FALSE),
          hidden |-> JBool(FALSE),
          createdAt |-> JNum(now)])

\* lines 547-593
submitTask ==
    /\ hasNameAndDate(form)
    /\ IF lacksMeetingTime(form)
       THEN /\ alerted' = MeetingAlert
            /\ UNCHANGED <<store, net, load, data, sortBy, pomodoroTimers, timersSame,
                           isStateLoaded, form, filters, uuid, clock, pureVars>>
       ELSE /\ Persist(SetField(WithTasks(JArr(Append(Tasks,
                                                      newTask(form, Uuid(uuid), clock)))),
                                "selectedDate", JStr(form.taskDate)),
                       pomodoroTimers)
            /\ form' = [form EXCEPT
                          !.taskName = <<>>,
                          !.taskDescription = <<>>,
                          !.priority = Medium,
                          !.category = FirstCategory(data),
                          !.taskType = Work,
                          !.meetingHour = <<"0", "9">>,
                          !.meetingMinute = <<"0", "0">>,
                          !.meetingAmPm = <<"A", "M">>]
            /\ uuid' = uuid + 1
            /\ clock' = clock + 1
            /\ UNCHANGED <<store, load, sortBy, pomodoroTimers, isStateLoaded, filters,
                           alerted, pureVars>>

----------------------------------------------------------------------------
(* client: categories *)

Uppers == <<"A", "B", "C", "D", "E", "F", "G", "H", "I", "J", "K", "L", "M",
            "N", "O", "P", "Q", "R", "S", "T", "U", "V", "W", "X", "Y", "Z">>
Lowers == <<"a", "b", "c", "d", "e", "f", "g", "h", "i", "j", "k", "l", "m",
            "n", "o", "p", "q", "r", "s", "t", "u", "v", "w", "x", "y", "z">>

IsUpper(c) == \E i \in 1..26 : Uppers[i] = c

LowerChar(c) == IF IsUpper(c) THEN Lowers[CHOOSE i \in 1..26 : Uppers[i] = c] ELSE c

\* String.prototype.toLowerCase
toLowerCase(s) == [i \in 1..Len(s) |-> LowerChar(s[i])]

\* the collation order of the characters used here: blank and punctuation,
\* then digits, then letters
Collation ==
    <<" ", "_", "-", ",", ":", "[", "]", "#">> \o Digits \o Lowers

CharRank(c) ==
    LET l == LowerChar(c)
    IN  IF \E i \in 1..Len(Collation) : Collation[i] = l
        THEN CHOOSE i \in 1..Len(Collation) : Collation[i] = l
        ELSE Len(Collation) + 1

RECURSIVE ComparePrimary(_, _)
ComparePrimary(a, b) ==
    IF a = <<>> /\ b = <<>> THEN 0
    ELSE IF a = <<>> THEN -1
    ELSE IF b = <<>> THEN 1
    ELSE IF CharRank(a[1]) < CharRank(b[1]) THEN -1
    ELSE IF CharRank(a[1]) > CharRank(b[1]) THEN 1
    ELSE ComparePrimary(Tail(a), Tail(b))

RECURSIVE CompareCase(_, _)
\* equal letters: the lower-case form sorts first
CompareCase(a, b) ==
    IF a = <<>> \/ b = <<>> THEN 0
    ELSE IF a[1] = b[1] THEN CompareCase(Tail(a), Tail(b))
    ELSE IF IsUpper(b[1]) THEN -1 ELSE 1

\* a.localeCompare(b)
localeCompare(a, b) ==
    IF ComparePrimary(a, b) # 0 THEN ComparePrimary(a, b) ELSE CompareCase(a, b)

\* a stable insertion of x into names sorted by localeCompare
RECURSIVE InsertName(_, _)
InsertName(names, x) ==
    IF names = <<>> THEN <<x>>
    ELSE IF localeCompare(x, names[Len(names)]) < 0
    THEN Append(InsertName(SubSeq(names, 1, Len(names) - 1), x), names[Len(names)])
    ELSE Append(names, x)

\* names.sort((a, b) => a.localeCompare(b))
RECURSIVE sortNames(_)
sortNames(names) ==
    IF names = <<>> THEN <<>>
    ELSE InsertName(sortNames(SubSeq(names, 1, Len(names) - 1)), names[Len(names)])

Categories == [i \in 1..Len(data.f.categories.a) |-> ToStr(data.f.categories.a[i])]

StrArr(names) == JArr([i \in 1..Len(names) |-> JStr(names[i])])

\* line 499
categoryExists(name) ==
    \E i \in 1..Len(Categories) : toLowerCase(Categories[i]) = toLowerCase(name)

\* lines 505-507
withCategory(name, color) ==
    SetField(SetField(data,
        "categories", StrArr(sortNames(Append(Categories, name)))),
        "categoryColors", MapSet(data.f.categoryColors, name, JStr(color)))

\* lines 495-514; typed is the text of the name field, color the picked colour
addCategory(typed, color) ==
    LET name == Trim(typed)
    IN  /\ name # <<>>
        /\ ~categoryExists(name)
        /\ Persist(withCategory(name, color), pomodoroTimers)
        /\ form' = [form EXCEPT !.category = name]
        /\ filters' = [filters EXCEPT
                         !.category = IF filters.category = All THEN All ELSE name]
        /\ UNCHANGED <<store, load, sortBy, pomodoroTimers, isStateLoaded, uuid, clock,
                       alerted, pureVars>>

\* line 517 without the comparison: no category is protected
isGeneralNever(categoryName) == FALSE

\* line 517
isGeneral(categoryName) == categoryName = General

\* line 523
fallbackCategory(categories) ==
    IF Includes(categories, General) THEN JStr(General)
    ELSE IF categories # <<>> THEN JStr(categories[1]) ELSE JUndef

\* lines 522-530 without lines 524-526: the tasks keep their category
withoutCategoryOnly(categoryName) ==
    SetField(SetField(data,
        "categories", StrArr(SelectSeq(Categories, LAMBDA item : item # categoryName))),
        "categoryColors", MapDelete(data.f.categoryColors, categoryName))

\* lines 522-530 with a filter in place of the map of lines 524-526: the
\* tasks of the category go with it
withoutCategoryAndItsTasks(categoryName) ==
    SetField(SetField(SetField(data,
        "categories", StrArr(SelectSeq(Categories, LAMBDA item : item # categoryName))),
        "categoryColors", MapDelete(data.f.categoryColors, categoryName)),
        "tasks", JArr(SelectSeq(Tasks,
                        LAMBDA task : ToStr(Prop(task, "category")) # categoryName)))

\* lines 522-530
withoutCategory(categoryName) ==
    LET categories == SelectSeq(Categories, LAMBDA item : item # categoryName)
        moved(task) ==
            IF ToStr(Prop(task, "category")) = categoryName
            THEN SetField(task, "category", fallbackCategory(categories))
            ELSE task
    IN  SetField(SetField(SetField(data,
            "categories", StrArr(categories)),
            "categoryColors", MapDelete(data.f.categoryColors, categoryName)),
            "tasks", JArr([i \in 1..Len(Tasks) |-> moved(Tasks[i])]))

\* line 518
GeneralAlert == <<"General category cannot be deleted.">>

\* lines 516-539
deleteCategory(categoryName) ==
    IF isGeneral(categoryName)
    THEN /\ alerted' = GeneralAlert
         /\ UNCHANGED <<store, net, load, data, sortBy, pomodoroTimers, timersSame,
                        isStateLoaded, form, filters, uuid, clock, pureVars>>
    ELSE /\ Persist(withoutCategory(categoryName), pomodoroTimers)
         /\ form' = IF form.category = categoryName
                    THEN [form EXCEPT !.category =
                            StrOr(fallbackCategory(SelectSeq(Categories,
                                      LAMBDA item : item # categoryName)), <<>>)]
                    ELSE form
         /\ filters' = IF filters.category = categoryName
                       THEN [filters EXCEPT !.category = All]
                       ELSE filters
         /\ UNCHANGED <<store, load, sortBy, pomodoroTimers, isStateLoaded, uuid, clock,
                        alerted, pureVars>>

----------------------------------------------------------------------------
(* client: sort mode, selected date, filters, manual order *)

\* lines 688-692
updateSortBy(value) ==
    LET safeValue == IF value \in ALLOWED_SORT_BY THEN value ELSE Priority
    IN  /\ sortBy' = safeValue
        /\ Persist(SetField(data, "sortBy", JStr(safeValue)), pomodoroTimers)
        /\ UNCHANGED <<store, load, pomodoroTimers, isStateLoaded, form, filters, uuid,
                       clock, alerted, pureVars>>

\* lines 769-774
changeSelectedDate(value) ==
    LET selectedDate == IF value # <<>> THEN value ELSE Today
    IN  /\ Persist(SetField(data, "selectedDate", JStr(selectedDate)), pomodoroTimers)
        /\ form' = [form EXCEPT !.taskDate = selectedDate]
        /\ UNCHANGED <<store, load, sortBy, pomodoroTimers, isStateLoaded, filters, uuid,
                       clock, alerted, pureVars>>

\* the Show all tasks button
toggleShowAll ==
    /\ filters' = [filters EXCEPT !.showAll = ~filters.showAll]
    /\ UNCHANGED <<store, net, load, data, sortBy, pomodoroTimers, timersSame,
                   isStateLoaded, form, uuid, clock, alerted, pureVars>>

\* Number.isFinite(v)
IsFiniteNumber(v) == v.t = "number" /\ ~IsNaN(v)

\* a stable insertion of entry e into entries sorted by orderValue
RECURSIVE InsertByOrder(_, _)
InsertByOrder(entries, e) ==
    IF entries = <<>> THEN <<e>>
    ELSE IF e.orderValue < entries[Len(entries)].orderValue
    THEN Append(InsertByOrder(SubSeq(entries, 1, Len(entries) - 1), e),
                entries[Len(entries)])
    ELSE Append(entries, e)

RECURSIVE sortByOrder(_)
sortByOrder(entries) ==
    IF entries = <<>> THEN <<>>
    ELSE InsertByOrder(sortByOrder(SubSeq(entries, 1, Len(entries) - 1)),
                       entries[Len(entries)])

\* lines 659-665 and 812-818 without the sort
byManualOrderUnsorted(tasks) == tasks

\* lines 659-665 and 812-818: tasks by order, the index standing in for a
\* missing order
byManualOrder(tasks) ==
    LET withOrder == [i \in 1..Len(tasks) |->
                        [task |-> tasks[i],
                         orderValue |-> IF IsFiniteNumber(Prop(tasks[i], "order"))
                                        THEN Prop(tasks[i], "order").n ELSE i - 1]]
        sorted == sortByOrder(withOrder)
    IN  [i \in 1..Len(sorted) |-> sorted[i].task]

\* findIndex, counted from 1; 0 when absent
FindIndex(tasks, taskId) ==
    IF \E i \in 1..Len(tasks) : TaskId(tasks[i]) = taskId
    THEN CHOOSE i \in 1..Len(tasks) :
            /\ TaskId(tasks[i]) = taskId
            /\ \A j \in 1..(i - 1) : TaskId(tasks[j]) # taskId
    ELSE 0

RemoveAt(xs, i) == SubSeq(xs, 1, i - 1) \o SubSeq(xs, i + 1, Len(xs))
InsertAt(xs, i, x) == SubSeq(xs, 1, i - 1) \o <<x>> \o SubSeq(xs, i, Len(xs))

IsSameDay(task) == ToStr(Prop(task, "date")) = ToStr(data.f.selectedDate)
IsOtherDay(task) == ~IsSameDay(task)

\* lines 656-665
orderedSameDay == byManualOrder(SelectSeq(Tasks, IsSameDay))

\* lines 675-680 without line 679: the tasks keep the order they carried
reorderedTasksNotReindexed(sourceId, targetId) ==
    LET fromIndex == FindIndex(orderedSameDay, sourceId)
        toIndex == FindIndex(orderedSameDay, targetId)
        reordered == InsertAt(RemoveAt(orderedSameDay, fromIndex), toIndex,
                              orderedSameDay[fromIndex])
    IN  SelectSeq(Tasks, IsOtherDay) \o reordered

\* lines 675-680 with source and target changing places
reorderedTasksSwapped(sourceId, targetId) ==
    LET fromIndex == FindIndex(orderedSameDay, sourceId)
        toIndex == FindIndex(orderedSameDay, targetId)
        reordered == [i \in 1..Len(orderedSameDay) |->
                        IF i = fromIndex THEN orderedSameDay[toIndex]
                        ELSE IF i = toIndex THEN orderedSameDay[fromIndex]
                        ELSE orderedSameDay[i]]
        reindexed == [i \in 1..Len(reordered) |->
                        SetField(reordered[i], "order", JNum(i - 1))]
    IN  SelectSeq(Tasks, IsOtherDay) \o reindexed

\* lines 675-680 with the tasks of every day given a new order
reorderedTasksAllReindexed(sourceId, targetId) ==
    LET fromIndex == FindIndex(orderedSameDay, sourceId)
        toIndex == FindIndex(orderedSameDay, targetId)
        reordered == InsertAt(RemoveAt(orderedSameDay, fromIndex), toIndex,
                              orderedSameDay[fromIndex])
        nextTasks == SelectSeq(Tasks, IsOtherDay) \o reordered
    IN  [i \in 1..Len(nextTasks) |-> SetField(nextTasks[i], "order", JNum(i - 1))]

\* lines 675-680
reorderedTasks(sourceId, targetId) ==
    LET fromIndex == FindIndex(orderedSameDay, sourceId)
        toIndex == FindIndex(orderedSameDay, targetId)
        reordered == InsertAt(RemoveAt(orderedSameDay, fromIndex), toIndex,
                              orderedSameDay[fromIndex])
        reindexed == [i \in 1..Len(reordered) |->
                        SetField(reordered[i], "order", JNum(i - 1))]
    IN  SelectSeq(Tasks, IsOtherDay) \o reindexed

\* lines 651 and 670 without the test sourceId === targetId
reorderAcceptedOntoItself(sourceId, targetId) ==
    /\ sourceId # <<>> /\ targetId # <<>>
    /\ FindIndex(orderedSameDay, sourceId) # 0
    /\ FindIndex(orderedSameDay, targetId) # 0

\* lines 651 and 670: the checks that let the reorder go on
reorderAccepted(sourceId, targetId) ==
    /\ sourceId # <<>> /\ targetId # <<>> /\ sourceId # targetId
    /\ FindIndex(orderedSameDay, sourceId) # 0
    /\ FindIndex(orderedSameDay, targetId) # 0

\* lines 650-686
reorderTasksWithinDay(sourceId, targetId) ==
    /\ reorderAccepted(sourceId, targetId)
    /\ sortBy' = Manual
    /\ Persist(SetField(WithTasks(JArr(reorderedTasks(sourceId, targetId))),
                        "sortBy", JStr(Manual)),
               pomodoroTimers)
    /\ UNCHANGED <<store, load, pomodoroTimers, isStateLoaded, form, filters, uuid, clock,
                   alerted, pureVars>>

----------------------------------------------------------------------------
(* client: the filter controls and the sorted view *)

\* line 1232
setFilterType(value) ==
    /\ filters' = [filters EXCEPT !.type = value]
    /\ UNCHANGED <<store, net, load, data, sortBy, pomodoroTimers, timersSame,
                   isStateLoaded, form, uuid, clock, alerted, pureVars>>

\* line 1242
setFilterCategory(value) ==
    /\ filters' = [filters EXCEPT !.category = value]
    /\ UNCHANGED <<store, net, load, data, sortBy, pomodoroTimers, timersSame,
                   isStateLoaded, form, uuid, clock, alerted, pureVars>>

\* line 1254
setFilterStatus(value) ==
    /\ filters' = [filters EXCEPT !.status = value]
    /\ UNCHANGED <<store, net, load, data, sortBy, pomodoroTimers, timersSame,
                   isStateLoaded, form, uuid, clock, alerted, pureVars>>

\* lines 776-781
resetFilters ==
    /\ filters' = [filters EXCEPT !.type = All, !.category = All, !.status = All]
    /\ sortBy' = Priority
    /\ Persist(SetField(data, "sortBy", JStr(Priority)), pomodoroTimers)
    /\ UNCHANGED <<store, load, pomodoroTimers, isStateLoaded, form, uuid, clock, alerted,
                   pureVars>>

\* every priority ranks the same: line 823 with the table emptied
priorityRankFlat(priority) == 99

\* line 208 and the `?? 99` of line 823
priorityRank(priority) ==
    IF priority = High THEN 0
    ELSE IF priority = Medium THEN 1
    ELSE IF priority = Low THEN 2
    ELSE 99

\* PRIORITY_ORDER[priority] is a property Object.prototype supplies: the
\* difference of line 823 is NaN
rankIsNaN(priority) == priority \in ObjectPrototypeKeys

\* lines 235-242: minutes since midnight of "hh:mm AM|PM ...", 9999 for
\* anything else
parseMeetingMinutes(timeLabel) ==
    IF /\ Len(timeLabel) >= 8
       /\ IsDigit(timeLabel[1]) /\ IsDigit(timeLabel[2]) /\ timeLabel[3] = ":"
       /\ IsDigit(timeLabel[4]) /\ IsDigit(timeLabel[5]) /\ timeLabel[6] \in Whitespace
       /\ timeLabel[7] \in {"A", "P"} /\ timeLabel[8] = "M"
    THEN ((DigitsToNat(SubSeq(timeLabel, 1, 2)) % 12)
            + (IF timeLabel[7] = "P" THEN 12 ELSE 0)) * 60
         + DigitsToNat(SubSeq(timeLabel, 4, 5))
    ELSE 9999

TaskStr(task, field) == ToStr(Prop(task, field))

\* a.createdAt || 0
CreatedAt(task) == ToNum(Or(Prop(task, "createdAt"), JNum(0))).n

\* lines 821-844: the comparator of the sorted view; a NaN result counts
\* as 0 for Array.prototype.sort
compareTasks(a, b) ==
    LET byName == localeCompare(TaskStr(a, "name"), TaskStr(b, "name"))
        rankDiff == priorityRank(TaskStr(a, "priority")) - priorityRank(TaskStr(b, "priority"))
    IN  IF sortBy = Priority
        THEN IF rankIsNaN(TaskStr(a, "priority")) \/ rankIsNaN(TaskStr(b, "priority")) THEN 0
             ELSE IF rankDiff # 0 THEN rankDiff
             ELSE IF TaskStr(a, "taskType") = Meeting /\ TaskStr(b, "taskType") = Meeting
             THEN parseMeetingMinutes(TaskStr(a, "meetingTime"))
                    - parseMeetingMinutes(TaskStr(b, "meetingTime"))
             ELSE byName
        ELSE IF sortBy = <<"c", "a", "t", "e", "g", "o", "r", "y">>
        THEN IF localeCompare(TaskStr(a, "category"), TaskStr(b, "category")) # 0
             THEN localeCompare(TaskStr(a, "category"), TaskStr(b, "category"))
             ELSE byName
        ELSE IF sortBy = <<"t", "a", "s", "k", "T", "y", "p", "e">>
        THEN IF localeCompare(TaskStr(a, "taskType"), TaskStr(b, "taskType")) # 0
             THEN localeCompare(TaskStr(a, "taskType"), TaskStr(b, "taskType"))
             ELSE byName
        ELSE CreatedAt(b) - CreatedAt(a)

\* a stable insertion of task x into tasks sorted by compareTasks
RECURSIVE InsertTask(_, _)
InsertTask(tasks, x) ==
    IF tasks = <<>> THEN <<x>>
    ELSE IF compareTasks(x, tasks[Len(tasks)]) < 0
    THEN Append(InsertTask(SubSeq(tasks, 1, Len(tasks) - 1), x), tasks[Len(tasks)])
    ELSE Append(tasks, x)

\* [...filtered].sort(comparator)
RECURSIVE sortTasks(_)
sortTasks(tasks) ==
    IF tasks = <<>> THEN <<>>
    ELSE InsertTask(sortTasks(SubSeq(tasks, 1, Len(tasks) - 1)), tasks[Len(tasks)])

\* lines 800-846
visibleTasks ==
    IF sortBy = Manual THEN byManualOrder(filteredTasks) ELSE sortTasks(filteredTasks)

----------------------------------------------------------------------------
(* client: the pomodoro timers *)

\* a ?? d
Nullish(v, d) == IF v.t \in {"undefined", "null"} THEN d ELSE v

\* pomodoroTimers[taskId]
TimerOf(timers, taskId) == MapGet(timers, taskId)

\* line 373
hasRunningPomodoro ==
    \E i \in 1..Len(pomodoroTimers.e) : Truthy(OptProp(pomodoroTimers.e[i].v, "isRunning"))

\* lines 694-702: the isRunning the task's button shows
shownRunning(taskId) == Truthy(OptProp(TimerOf(pomodoroTimers, taskId), "isRunning"))

\* Number.parseInt(text, 10): blanks, an optional sign, then the leading digits
RECURSIVE LeadingDigits(_)
LeadingDigits(s) ==
    IF s # <<>> /\ IsDigit(s[1]) THEN <<s[1]>> \o LeadingDigits(Tail(s)) ELSE <<>>

parseInt(text) ==
    LET x == TrimStart(text)
        negative == x # <<>> /\ x[1] = "-"
        body == IF x # <<>> /\ x[1] \in {"-", "+"} THEN Tail(x) ELSE x
        digits == LeadingDigits(body)
    IN  IF digits = <<>> THEN JNaN
        ELSE JNum(IF negative THEN 0 - DigitsToNat(digits) ELSE DigitsToNat(digits))

\* lines 724-726 with the minutes taken as the seconds
promptedSecondsNotMultiplied(text) ==
    LET minutes == parseInt(text)
    IN  IF IsFiniteNumber(minutes) /\ minutes.n > 0 THEN minutes.n ELSE 30

\* lines 724-726
promptedSeconds(text) ==
    LET minutes == parseInt(text)
        safeMinutes == IF IsFiniteNumber(minutes) /\ minutes.n > 0 THEN minutes.n ELSE 30
    IN  safeMinutes * 60

\* line 711
canResume(existing) ==
    Truthy(existing) /\ ~IsNaN(ToNum(Prop(existing, "remainingSeconds")))
                     /\ ToNum(Prop(existing, "remainingSeconds")).n > 0

\* lines 708-737 with the countdown begun again on resuming
startedTimersRestarted(timers, taskId, answer) ==
    LET existing == TimerOf(timers, taskId)
    IN  IF canResume(existing)
        THEN MapSet(timers, taskId,
                    SetField(SetField(existing, "isRunning", JBool(TRUE)),
                             "remainingSeconds", Prop(existing, "durationSeconds")))
        ELSE IF answer.t = "null" THEN timers
        ELSE MapSet(timers, taskId,
                    JObj([remainingSeconds |-> JNum(promptedSeconds(answer.s)),
                          durationSeconds |-> JNum(promptedSeconds(answer.s)),
                          isRunning |-> JBool(TRUE)]))

\* lines 708-737: the timers after startPomodoro; answer is the prompt's
\* text, or null when the prompt is cancelled
startedTimers(timers, taskId, answer) ==
    LET existing == TimerOf(timers, taskId)
    IN  IF canResume(existing)
        THEN MapSet(timers, taskId, SetField(existing, "isRunning", JBool(TRUE)))
        ELSE IF answer.t = "null" THEN timers
        ELSE MapSet(timers, taskId,
                    JObj([remainingSeconds |-> JNum(promptedSeconds(answer.s)),
                          durationSeconds |-> JNum(promptedSeconds(answer.s)),
                          isRunning |-> JBool(TRUE)]))

\* whether startPomodoro reaches setPomodoroTimers and persist
startCommits(timers, taskId, answer) ==
    canResume(TimerOf(timers, taskId)) \/ answer.t # "null"

startPomodoro(taskId, answer) ==
    /\ startCommits(pomodoroTimers, taskId, answer)
    /\ pomodoroTimers' = startedTimers(pomodoroTimers, taskId, answer)
    /\ Persist(data, startedTimers(pomodoroTimers, taskId, answer))
    /\ UNCHANGED <<store, load, sortBy, isStateLoaded, form, filters, uuid, clock, alerted, pureVars>>

\* lines 739-749 with the default entry taken for an existing one too
pausedTimersFromDefault(timers, taskId) ==
    MapSet(timers, taskId,
           JObj([remainingSeconds |-> JNum(DEFAULT_POMODORO_SECONDS),
                 durationSeconds |-> JNum(DEFAULT_POMODORO_SECONDS),
                 isRunning |-> JBool(FALSE)]))

\* lines 739-749
pausedTimers(timers, taskId) ==
    LET current == Or(TimerOf(timers, taskId),
                      JObj([remainingSeconds |-> JNum(DEFAULT_POMODORO_SECONDS),
                            durationSeconds |-> JNum(DEFAULT_POMODORO_SECONDS),
                            isRunning |-> JBool(FALSE)]))
    IN  MapSet(timers, taskId, SetField(current, "isRunning", JBool(FALSE)))

\* lines 739-752
pausePomodoro(taskId) ==
    /\ pomodoroTimers' = pausedTimers(pomodoroTimers, taskId)
    /\ Persist(data, pausedTimers(pomodoroTimers, taskId))
    /\ UNCHANGED <<store, load, sortBy, isStateLoaded, form, filters, uuid, clock, alerted, pureVars>>

\* lines 754-760 with every entry taken away
resetPomodoroClearsAll(taskId) ==
    /\ Truthy(TimerOf(pomodoroTimers, taskId))
    /\ pomodoroTimers' = JMap(<<>>)
    /\ Persist(data, JMap(<<>>))
    /\ UNCHANGED <<store, load, sortBy, isStateLoaded, form, filters, uuid, clock, alerted, pureVars>>

\* lines 754-760
resetPomodoro(taskId) ==
    /\ Truthy(TimerOf(pomodoroTimers, taskId))
    /\ pomodoroTimers' = MapDelete(pomodoroTimers, taskId)
    /\ Persist(data, MapDelete(pomodoroTimers, taskId))
    /\ UNCHANGED <<store, load, sortBy, isStateLoaded, form, filters, uuid, clock, alerted, pureVars>>

\* lines 437-447 with line 441 left out: the timer keeps running at zero
tickedTimerNeverStops(timer) ==
    IF ~Truthy(OptProp(timer, "isRunning")) THEN timer
    ELSE LET current == ToNum(Nullish(Prop(timer, "remainingSeconds"),
                                      JNum(DEFAULT_POMODORO_SECONDS)))
             durationSeconds == ToNum(Nullish(Prop(timer, "durationSeconds"),
                                              JNum(DEFAULT_POMODORO_SECONDS)))
         IN  SetField(SetField(timer,
                "durationSeconds", durationSeconds),
                "remainingSeconds", JNum(Max(current.n - 1, 0)))

\* lines 437-447 with two seconds taken at line 440
tickedTimerSkipsASecond(timer) ==
    IF ~Truthy(OptProp(timer, "isRunning")) THEN timer
    ELSE LET current == ToNum(Nullish(Prop(timer, "remainingSeconds"),
                                      JNum(DEFAULT_POMODORO_SECONDS)))
             durationSeconds == ToNum(Nullish(Prop(timer, "durationSeconds"),
                                              JNum(DEFAULT_POMODORO_SECONDS)))
             remainingSeconds == Max(current.n - 2, 0)
         IN  SetField(SetField(SetField(timer,
                "durationSeconds", durationSeconds),
                "remainingSeconds", JNum(remainingSeconds)),
                "isRunning", JBool(remainingSeconds > 0))

\* lines 437-447: one timer after a tick of the interval
tickedTimer(timer) ==
    IF ~Truthy(OptProp(timer, "isRunning")) THEN timer
    ELSE LET current == ToNum(Nullish(Prop(timer, "remainingSeconds"),
                                      JNum(DEFAULT_POMODORO_SECONDS)))
             durationSeconds == ToNum(Nullish(Prop(timer, "durationSeconds"),
                                              JNum(DEFAULT_POMODORO_SECONDS)))
             remainingSeconds == Max(current.n - 1, 0)
         IN  SetField(SetField(SetField(timer,
                "durationSeconds", durationSeconds),
                "remainingSeconds", JNum(remainingSeconds)),
                "isRunning", JBool(remainingSeconds > 0))

\* lines 432-451 with the update ended at the first running timer
tickedTimersFirstOnly(prev) ==
    JMap([i \in 1..Len(prev.e) |->
            [k |-> prev.e[i].k,
             v |-> IF \E j \in 1..(i - 1) : Truthy(OptProp(prev.e[j].v, "isRunning"))
                   THEN prev.e[i].v
                   ELSE tickedTimer(prev.e[i].v)]])

\* lines 432-451
tickedTimers(prev) ==
    JMap([i \in 1..Len(prev.e) |-> [k |-> prev.e[i].k, v |-> tickedTimer(prev.e[i].v)]])

\* lines 428-455 with the effect of lines 457-467 that follows the update
tick ==
    /\ hasRunningPomodoro
    /\ pomodoroTimers' = tickedTimers(pomodoroTimers)
    /\ TimerEffect(isStateLoaded, tickedTimers(pomodoroTimers),
                   tickedTimers(pomodoroTimers) = pomodoroTimers /\ timersSame)
    /\ UNCHANGED <<store, load, sortBy, isStateLoaded, form, filters, uuid, clock, alerted, pureVars>>

----------------------------------------------------------------------------
(* What the user can do next *)

\* texts the user types and documents carry
NameA == <<"A">>
SpaceA == <<" ", "A">>
Abc == <<"a", "b", "c">>
Ctor == <<"c", "o", "n", "s", "t", "r", "u", "c", "t", "o", "r">>
T1 == <<"t", "1">>
Red == <<"#", "F", "F", "0", "0", "0", "0">>
Tomorrow == <<"2", "0", "2", "6", "-", "1", "1", "-", "0", "4">>

\* most days a task is moved or cloned past today
MaxDayShift == 2

RECURSIVE DateAfter(_, _)
DateAfter(date, n) == IF n = 0 THEN date ELSE DateAfter(getNextDate(date).s, n - 1)

ShiftableDates == {DateAfter(Today, k) : k \in 0..(MaxDayShift - 1)}

CanBeShifted(taskId) == ToStr(Prop(FindTask(taskId), "date")) \in ShiftableDates

IsHidden(taskId) == Truthy(Prop(FindTask(taskId), "hidden"))

\* no save is on its way to the server
Quiet == net = {}

\* the user works on the planner once it has loaded and the last save has
\* been handled; the handlers read neither the requests in flight nor the
\* stored row
Ready == isStateLoaded /\ Quiet

TaskNameInputs == {NameA, <<" ">>}

EditTaskName == \E v \in TaskNameInputs : isStateLoaded /\ updateForm("taskName", v)

EditCategory ==
    \E i \in 1..Len(Categories) : isStateLoaded /\ updateForm("category", Categories[i])

EditTaskType == \E v \in {Work, Meeting} : isStateLoaded /\ updateForm("taskType", v)

EditTaskDate ==
    \E v \in {Today, Tomorrow, <<>>} : isStateLoaded /\ updateForm("taskDate", v)

\* the Add Task button; at most MaxTasks identifiers are drawn in a run
SubmitForm == Ready /\ uuid < MaxTasks /\ submitTask

\* the menu of a listed task (lines 1120-1182)
MenuToggleDone == \E id \in VisibleIds : Ready /\ toggleDone(id)
MenuHide == \E id \in VisibleIds : Ready /\ ~IsHidden(id) /\ hideTask(id)
MenuRestore == \E id \in VisibleIds : Ready /\ IsHidden(id) /\ restoreTask(id)
MenuMove == \E id \in VisibleIds : Ready /\ CanBeShifted(id) /\ moveTaskToNextDay(id)
MenuClone ==
    \E id \in VisibleIds :
        Ready /\ uuid < MaxTasks /\ CanBeShifted(id) /\ cloneTaskToNextDay(id)

\* a listed task dragged onto another one (lines 1080-1084)
DragAndDrop == \E source \in VisibleIds, target \in VisibleIds :
                    Ready /\ reorderTasksWithinDay(source, target)

\* the page is closed and opened again
Reopen == Quiet /\ Remount

\* the server handles a save
Deliver == \E m \in net : ServerPut(m)

\* Show all tasks, once the planner has loaded
ShowAll == isStateLoaded /\ toggleShowAll

NextTasks ==
    \/ ServerGet
    \/ LoadResolve
    \/ EditTaskName
    \/ SubmitForm
    \/ MenuToggleDone
    \/ MenuHide
    \/ MenuRestore
    \/ MenuMove
    \/ MenuClone
    \/ DragAndDrop
    \/ ShowAll
    \/ Deliver

SpecTasks == Init /\ [][NextTasks]_vars

\* C4: in every client state reached by submitTask, toggleDone, hideTask,
\* restoreTask, moveTaskToNextDay, cloneTaskToNextDay and reorder, every
\* task that is done is hidden.
C4_DoneImpliesHidden ==
    \A i \in 1..Len(Tasks) :
        Truthy(Prop(Tasks[i], "done")) => Truthy(Prop(Tasks[i], "hidden"))

----------------------------------------------------------------------------
(* The planner saved, the server restarted, the page opened again *)

\* what the prompt of startPomodoro returns: minutes typed, or null on Cancel
PromptAnswers == {JStr(<<"1">>), JNull}

\* the timer buttons of a listed task (lines 1120-1143)
MenuStartTimer ==
    \E id \in VisibleIds, answer \in PromptAnswers :
        Ready /\ ~shownRunning(id) /\ startPomodoro(id, answer)
MenuPauseTimer == \E id \in VisibleIds : Ready /\ shownRunning(id) /\ pausePomodoro(id)
MenuResetTimer == \E id \in VisibleIds : Ready /\ resetPomodoro(id)

NextStore ==
    \/ ServerGet
    \/ LoadResolve
    \/ EditTaskName
    \/ SubmitForm
    \/ DragAndDrop
    \/ MenuStartTimer
    \/ Deliver
    \/ ServerRestart
    \/ Reopen

SpecStore == Init /\ [][NextStore]_vars

\* what load() returns once the row holds this document
LoadedFrom(row) == normalizeStateClient(getState(row, clock, uuid).body)

\* C1: restarting the server while a document is stored leaves the stored
\* document as it was.
C1_RestartKeepsDocument == [][ServerRestart => store' = store]_vars

\* C2: once a save of a client state has been handled, load() returns a
\* document with the sortBy and the pomodoroTimers of that state.
C2_RoundTripKeepsSortAndTimers ==
    [][\A m \in net :
        ServerPut(m) =>
            /\ LoadedFrom(store').f.sortBy = Prop(m, "sortBy")
            /\ SameMap(LoadedFrom(store').f.pomodoroTimers, Prop(m, "pomodoroTimers"))]_vars

\* the task of this id in a document
TaskOf(doc, taskId) ==
    LET found == SelectSeq(doc.f.tasks.a, LAMBDA task : TaskId(task) = taskId)
    IN  IF found = <<>> THEN JUndef ELSE found[1]

\* C3: once a reordered document has been saved, the document load() returns
\* has every task carrying the order the reorder gave it.
C3_ManualOrderSurvives ==
    [][\A m \in net :
        ServerPut(m) =>
            \A i \in 1..Len(m.f.tasks.a) :
                IsFiniteNumber(Prop(m.f.tasks.a[i], "order")) =>
                    OptProp(TaskOf(LoadedFrom(store'), TaskId(m.f.tasks.a[i])), "order")
                        = Prop(m.f.tasks.a[i], "order")]_vars

----------------------------------------------------------------------------
(* The pomodoro timers of a planner that holds two tasks *)

\* the task the form gives when the k-th identifier is drawn at time k + 1
seedTask(k) == newTask([initialForm EXCEPT !.taskName = NameA], Uuid(k), k + 1)

\* the page has loaded, two tasks named A were added and both saves handled
TwoTasksSaved ==
    LET doc == SetField(createDefaultState, "tasks", JArr(<<seedTask(0), seedTask(1)>>))
    IN  /\ data = doc
        /\ store = Json(normalizeState(Json(doc), 3, 2))
        /\ net = {}
        /\ load = [phase |-> "done",
                   resp |-> [status |-> 200, body |-> Json(normalizeState(defaultState, 1, 0))]]
        /\ sortBy = Priority
        /\ pomodoroTimers = JMap(<<>>)
        /\ timersSame = TRUE
        /\ isStateLoaded = TRUE
        /\ form = initialForm
        /\ filters = initialFilters
        /\ alerted = <<>>
        /\ uuid = 2
        /\ clock = 3

InitTimer == TwoTasksSaved /\ NoPure /\ pc = "system"

\* the one-second interval of lines 428-455
Tick == (isStateLoaded => Quiet) /\ tick

NextTimer ==
    \/ MenuStartTimer
    \/ MenuPauseTimer
    \/ MenuResetTimer
    \/ Tick
    \/ Deliver
    \/ Reopen
    \/ ServerGet
    \/ LoadResolve

SpecTimer == InitTimer /\ [][NextTimer]_vars

TimerOk(timer) ==
    LET remaining == Prop(timer, "remainingSeconds")
        duration == Prop(timer, "durationSeconds")
    IN  /\ IsFiniteNumber(remaining) /\ IsFiniteNumber(duration)
        /\ 0 <= remaining.n /\ remaining.n <= duration.n
        /\ duration.n > 0
        /\ Truthy(Prop(timer, "isRunning")) => remaining.n > 0

TimersOk(timers) == \A i \in 1..Len(timers.e) : TimerOk(timers.e[i].v)

\* C5: under any interleaving of start, pause, reset, tick and load every
\* timer has 0 <= remainingSeconds <= durationSeconds, durationSeconds > 0,
\* and is running only while remainingSeconds > 0.
C5_TimerInvariants ==
    /\ TimersOk(pomodoroTimers)
    /\ TimersOk(data.f.pomodoroTimers)

\* one timer has run down to zero and stopped while another one, paused
\* part of the way, waits
C5_Witness ==
    \E i, j \in 1..Len(pomodoroTimers.e) :
        /\ pomodoroTimers.e[i].v.f.remainingSeconds.n = 0
        /\ ~Truthy(pomodoroTimers.e[i].v.f.isRunning)
        /\ pomodoroTimers.e[j].v.f.remainingSeconds.n \in 1..59
        /\ ~Truthy(pomodoroTimers.e[j].v.f.isRunning)

\* a timer as startPomodoro creates it for this many minutes
FreshTimer(minutes) ==
    JObj([remainingSeconds |-> JNum(minutes * 60),
          durationSeconds |-> JNum(minutes * 60),
          isRunning |-> JBool(TRUE)])

\* a running timer loses one second and stops on reaching zero; a stopped
\* one stays as it is
OneSecondLater(before, after) ==
    IF Truthy(Prop(before, "isRunning"))
    THEN /\ Prop(after, "remainingSeconds") = JNum(Prop(before, "remainingSeconds").n - 1)
         /\ Prop(after, "durationSeconds") = Prop(before, "durationSeconds")
         /\ Prop(after, "isRunning") = JBool(Prop(before, "remainingSeconds").n > 1)
    ELSE after = before

\* C14: a timer started for n seconds runs down by one second a tick and is
\* at remainingSeconds = 0, isRunning = false after n ticks; a further tick
\* leaves an expired timer at 0, stopped.  Stated step by step: a start
\* for one minute gives 60 of 60 seconds, running; every tick takes exactly
\* one second from each running timer, stops it at zero and never below,
\* and leaves every stopped timer unchanged.
C14_CountdownExpires ==
    /\ [][\A id \in VisibleIds :
            (~canResume(TimerOf(pomodoroTimers, id)) /\ startPomodoro(id, JStr(<<"1">>)))
                => TimerOf(pomodoroTimers', id) = FreshTimer(1)]_vars
    /\ [][tick =>
            /\ MapKeys(pomodoroTimers') = MapKeys(pomodoroTimers)
            /\ \A i \in 1..Len(pomodoroTimers.e) :
                /\ OneSecondLater(pomodoroTimers.e[i].v,
                                  TimerOf(pomodoroTimers', pomodoroTimers.e[i].k))
                /\ Prop(TimerOf(pomodoroTimers', pomodoroTimers.e[i].k),
                        "remainingSeconds").n >= 0]_vars

\* a one-minute timer has expired and stays at zero, stopped, while the
\* ticks go on for another timer started later
C14_Witness ==
    \E i, j \in 1..Len(pomodoroTimers.e) :
        /\ pomodoroTimers.e[i].v = [FreshTimer(1) EXCEPT !.f.remainingSeconds = JNum(0),
                                                         !.f.isRunning = JBool(FALSE)]
        /\ Truthy(pomodoroTimers.e[j].v.f.isRunning)
        /\ pomodoroTimers.e[j].v.f.remainingSeconds.n < 59

----------------------------------------------------------------------------
(* Categories added and deleted while tasks are created, moved and cloned *)

\* names typed into the category field
CategoryInputs == {SpaceA, <<"a">>, <<" ">>}

\* the Add button of the category settings (line 1018)
AddCategory == \E typed \in CategoryInputs : Ready /\ addCategory(typed, Red)

\* deleteCategory called with a listed name; the settings list offers the
\* button for every name but General (lines 1032-1041), the handler itself
\* takes any
DeleteCategory == \E i \in 1..Len(Categories) : Ready /\ deleteCategory(Categories[i])

NextCategories ==
    \/ ServerGet
    \/ LoadResolve
    \/ AddCategory
    \/ DeleteCategory
    \/ EditTaskName
    \/ EditCategory
    \/ SubmitForm
    \/ MenuMove
    \/ MenuClone
    \/ Deliver
    \/ Reopen

SpecCategories == Init /\ [][NextCategories]_vars

\* C9: in every client state reached by load, addCategory, deleteCategory,
\* submitTask, clone, move and form edits, every task's category is one of
\* the categories.
C9_TaskCategoryListed ==
    \A i \in 1..Len(Tasks) :
        /\ Prop(Tasks[i], "category").t = "string"
        /\ Includes(Categories, Prop(Tasks[i], "category").s)

\* the stored document still has a task in category A; the client has
\* deleted A, and its save is on the way
C9_Witness ==
    /\ net # {}
    /\ store.t = "object"
    /\ \E i \in 1..Len(store.f.tasks.a) : store.f.tasks.a[i].f.category = JStr(NameA)
    /\ Len(Tasks) > 0
    /\ ~Includes(Categories, NameA)

StoredCategories ==
    IF store.t = "object" /\ Prop(store, "categories").t = "array"
    THEN [i \in 1..Len(store.f.categories.a) |-> ToStr(store.f.categories.a[i])]
    ELSE <<>>

\* C10: "General" is a category in every client state and in every stored
\* document, and deleteCategory("General") changes neither the planner nor
\* the requests in flight.
C10_GeneralStays ==
    /\ [](Includes(Categories, General) /\ Includes(StoredCategories, General))
    /\ [][deleteCategory(General) =>
            UNCHANGED <<data, net, store, form, filters, sortBy, pomodoroTimers>>]_vars

\* deleteCategory("General") has been called (its alert was shown) on a
\* planner that has another category as well
C10_Witness ==
    /\ alerted = GeneralAlert
    /\ Len(Categories) > 1
    /\ Len(StoredCategories) > 1

ColorOf(doc, name) == MapGet(doc.f.categoryColors, name)

\* what deleteCategory(c) is to leave behind, told from the state before
DeletedFrom(c) ==
    /\ Len(Tasks') = Len(Tasks)
    /\ \A k \in 1..Len(Tasks) :
        Tasks'[k] = IF Prop(Tasks[k], "category") = JStr(c)
                    THEN SetField(Tasks[k], "category", JStr(General))
                    ELSE Tasks[k]
    /\ ~Includes(Categories', c)
    /\ Categories' = SelectSeq(Categories, LAMBDA name : name # c)
    /\ ~HasOwn(data'.f.categoryColors.e, c)
    /\ \A i \in 1..Len(Categories) :
        Categories[i] # c => ColorOf(data', Categories[i]) = ColorOf(data, Categories[i])
    /\ MapKeys(data'.f.categoryColors) = MapKeys(data.f.categoryColors) \ {c}

\* C13: deleteCategory(c) for c other than "General" moves every task of
\* category c to "General", removes c from categories and categoryColors,
\* and leaves every other task, category and colour as it was.
C13_DeleteCategoryReassigns ==
    [][\A i \in 1..Len(Categories) :
        (Categories[i] # General /\ deleteCategory(Categories[i]))
            => DeletedFrom(Categories[i])]_vars

\* category A, still in the stored document with its colour and a task, has
\* been deleted in the client: the task is in General now, the save is on
\* its way
C13_Witness ==
    /\ net # {}
    /\ Includes(StoredCategories, NameA)
    /\ \E i \in 1..Len(store.f.tasks.a) :
        /\ store.f.tasks.a[i].f.category = JStr(NameA)
        /\ \E k \in 1..Len(Tasks) :
            /\ TaskId(Tasks[k]) = TaskId(store.f.tasks.a[i])
            /\ Prop(Tasks[k], "category") = JStr(General)
    /\ ~Includes(Categories, NameA)
    /\ ~HasOwn(data.f.categoryColors.e, NameA)

HasNoDuplicate(names) ==
    \A i, j \in 1..Len(names) : names[i] = names[j] => i = j

\* C19: categories never holds a name twice, in the client and in the
\* stored document, and a typed name that is non-empty once trimmed and
\* differs from every category, if only in letter case, is not taken for an
\* existing one by addCategory: it is added.
C19_CategoriesCaseSensitive ==
    /\ HasNoDuplicate(Categories)
    /\ HasNoDuplicate(StoredCategories)
    /\ \A typed \in CategoryInputs :
        (Trim(typed) # <<>> /\ ~Includes(Categories, Trim(typed)))
            => ~categoryExists(Trim(typed))

----------------------------------------------------------------------------
(* normalizeState applied on its own to documents of every shape *)

SeqsUpTo(S, n) == UNION {[1..k -> S] : k \in 0..n}

\* values of the wrong type or shape for any field
OddValues ==
    {JUndef, JNull, JStr(<<>>), JStr(<<" ">>), JStr(Abc), JStr(SpaceA),
     JNum(0), JNum(7), JBool(TRUE), JArr(<<>>)}

RawCategoryItems ==
    {JStr(General), JStr(NameA), JStr(SpaceA), JStr(<<>>), JNull, JNum(7), JStr(Ctor)}

RawCategories ==
    {JUndef, JStr(NameA)} \cup {JArr(xs) : xs \in SeqsUpTo(RawCategoryItems, 2)}

RawColorEntries ==
    {[k |-> key, v |-> value] :
        key \in {NameA, SpaceA, General, Ctor, <<" ">>},
        value \in {JStr(Red), JStr(<<" ">> \o Red), JStr(Abc), JNum(7), JNull}}

RawColors ==
    {JUndef, JStr(NameA), JArr(<<JStr(Red)>>)}
    \cup {JMap(es) : es \in SeqsUpTo(RawColorEntries, 1)}
    \cup {JMap(<<[k |-> SpaceA, v |-> JStr(Red)], [k |-> NameA, v |-> JStr(DEFAULT_CATEGORY_COLOR)]>>)}

baseTask ==
    JObj([id |-> JStr(T1), name |-> JStr(NameA), description |-> JStr(<<>>),
          priority |-> JStr(High), category |-> JStr(NameA), taskType |-> JStr(Meeting),
          meetingTime |-> JStr(<<>>), date |-> JStr(Tomorrow), done |-> JBool(TRUE),
          hidden |-> JBool(TRUE), createdAt |-> JNum(5), order |-> JNum(0)])

TaskFields ==
    {"id", "name", "description", "priority", "category", "taskType", "meetingTime",
     "date", "done", "hidden", "createdAt", "order"}

\* a task with one field off, an object without any field, and non-objects
RawTasks ==
    {SetField(baseTask, k, v) : k \in TaskFields, v \in OddValues}
    \cup {baseTask, JMap(<<>>), JNull, JNum(7), JStr(NameA), JArr(<<>>)}

RawTaskPairs ==
    {<<t, u>> : t, u \in {baseTask, SetField(baseTask, "id", JUndef),
                          SetField(baseTask, "id", JStr(<<>>)), JNull}}

RawTaskLists ==
    {JUndef, JStr(NameA), JArr(<<>>)}
    \cup {JArr(<<t>>) : t \in RawTasks}
    \cup {JArr(p) : p \in RawTaskPairs}

RawTimers ==
    {JUndef, JStr(NameA), JMap(<<>>)}
    \cup {JMap(<<[k |-> key, v |-> timer]>>) :
            key \in {T1, <<>>},
            timer \in {JNull, JNum(7)} \cup
                {JObj([remainingSeconds |-> r, durationSeconds |-> d, isRunning |-> b]) :
                    r \in {JUndef, JNum(0), JNum(-1), JNum(60), JNum(90), JStr(Abc)},
                    d \in {JUndef, JNum(0), JNum(60), JStr(<<"6", "0">>)},
                    b \in {JUndef, JBool(TRUE), JBool(FALSE)}}}

RawDoc(categories, categoryColors, tasks, selectedDate, sort, timers) ==
    JObj([categories |-> categories, categoryColors |-> categoryColors, tasks |-> tasks,
          selectedDate |-> selectedDate, sortBy |-> sort, pomodoroTimers |-> timers])

\* the documents normalizeState is applied to
RawPayloads ==
    {JUndef, JNull, JNum(7), JStr(NameA), JBool(TRUE), JArr(<<>>), JMap(<<>>)}
    \cup {RawDoc(c, k, JUndef, JUndef, JUndef, JUndef) : c \in RawCategories, k \in RawColors}
    \cup {RawDoc(c, JUndef, t, JUndef, JUndef, JUndef) :
            c \in {JUndef, JArr(<<JStr(NameA)>>), JArr(<<JStr(SpaceA), JStr(General)>>)},
            t \in RawTaskLists}
    \cup {RawDoc(JUndef, JUndef, JUndef, d, JUndef, JUndef) : d \in OddValues \cup {JStr(Tomorrow)}}
    \cup {RawDoc(JUndef, JUndef, JUndef, JUndef, o, JUndef) :
            o \in {JStr(Manual), JStr(Abc), JNum(7), JArr(<<JStr(Manual)>>)}}
    \cup {RawDoc(JUndef, JUndef, JUndef, JUndef, JUndef, t) : t \in RawTimers}

InitNorm ==
    /\ ServerInit
    /\ ClientInit
    /\ net = {}
    /\ uuid = 0
    /\ clock = 1
    /\ input \in RawPayloads
    /\ result = JUndef
    /\ again = JUndef
    /\ pc = "start"

\* the server's normalizeState on the input, and on its own result, with
\* the clock and the id generator held where they are
ApplyServerNormalize ==
    /\ pc = "start"
    /\ result' = normalizeState(input, clock, uuid)
    /\ again' = normalizeState(normalizeState(input, clock, uuid), clock, uuid)
    /\ pc' = "server"
    /\ UNCHANGED <<store, net, load, clientVars, uuid, clock, input>>

\* the client's normalizeState on the input, and on its own result
ApplyClientNormalize ==
    /\ pc = "start"
    /\ result' = normalizeStateClient(input)
    /\ again' = normalizeStateClient(normalizeStateClient(input))
    /\ pc' = "client"
    /\ UNCHANGED <<store, net, load, clientVars, uuid, clock, input>>

NextNorm == ApplyServerNormalize \/ ApplyClientNormalize

SpecNorm == InitNorm /\ [][NextNorm]_vars

----------------------------------------------------------------------------
(* Properties of normalizeState *)

DocCategories(doc) == [i \in 1..Len(doc.f.categories.a) |-> ToStr(doc.f.categories.a[i])]

\* every category name has an own colour entry that is six hex digits
EveryCategoryColored(doc) ==
    \A i \in 1..Len(doc.f.categories.a) :
        /\ HasOwn(doc.f.categoryColors.e, ToStr(doc.f.categories.a[i]))
        /\ LET color == OwnValue(doc.f.categoryColors.e, ToStr(doc.f.categories.a[i]))
           IN  color.t = "string" /\ IsHexColor(color.s)

EveryTaskCategoryKnown(doc) ==
    \A i \in 1..Len(doc.f.tasks.a) :
        Includes(DocCategories(doc), ToStr(Prop(doc.f.tasks.a[i], "category")))

\* C6: for every input document, the server's normalizeState returns a
\* document in which "General" is a category, every task's category is a
\* category, and every category has a colour matching ^#[0-9a-fA-F]{6}$.
C6_NormalizedInvariants ==
    pc = "server" =>
        /\ result.t = "object"
        /\ Includes(DocCategories(result), General)
        /\ EveryTaskCategoryKnown(result)
        /\ EveryCategoryColored(result)

\* C7: normalizeState is idempotent, the clock and the id generator held
\* fixed: applying it to its own result returns that result.
C7_NormalizeIdempotent ==
    pc \in {"server", "client"} => again = result

IsStr(v) == v.t = "string"

\* the eleven fields of a task, each of its type
WellFormedTask(task) ==
    /\ task.t = "object"
    /\ DOMAIN task.f = {"id", "name", "description", "priority", "category", "taskType",
                        "meetingTime", "date", "done", "hidden", "createdAt"}
    /\ \A k \in {"id", "name", "description", "priority", "category", "taskType",
                 "meetingTime", "date"} : IsStr(task.f[k])
    /\ task.f.done.t = "boolean" /\ task.f.hidden.t = "boolean"
    /\ task.f.createdAt.t = "number"

WellFormedCategories(doc) ==
    /\ doc.f.categories.t = "array"
    /\ Len(doc.f.categories.a) > 0
    /\ \A i \in 1..Len(doc.f.categories.a) :
        /\ IsStr(doc.f.categories.a[i]) /\ doc.f.categories.a[i].s # <<>>
        /\ \A j \in 1..(i - 1) : doc.f.categories.a[j] # doc.f.categories.a[i]
    /\ doc.f.categoryColors.t = "map"
    /\ \A i \in 1..Len(doc.f.categoryColors.e) : IsStr(doc.f.categoryColors.e[i].v)

\* what the server's normalizeState promises of its result
WellFormedServerState(doc) ==
    /\ doc.t = "object"
    /\ doc.f.tasks.t = "array"
    /\ \A i \in 1..Len(doc.f.tasks.a) : WellFormedTask(doc.f.tasks.a[i])
    /\ WellFormedCategories(doc)
    /\ IsStr(doc.f.selectedDate)

WellFormedTimer(timer) ==
    /\ timer.t = "object"
    /\ IsFiniteNumber(timer.f.remainingSeconds)
    /\ IsFiniteNumber(timer.f.durationSeconds)
    /\ timer.f.isRunning.t = "boolean"

\* what the client's normalizeState promises of its result (it hands the
\* entries of tasks on as they are)
WellFormedClientState(doc) ==
    /\ doc.t = "object"
    /\ doc.f.tasks.t = "array"
    /\ WellFormedCategories(doc)
    /\ IsStr(doc.f.selectedDate) /\ doc.f.selectedDate.s # <<>>
    /\ IsStr(doc.f.sortBy) /\ doc.f.sortBy.s \in ALLOWED_SORT_BY
    /\ doc.f.pomodoroTimers.t = "map"
    /\ \A i \in 1..Len(doc.f.pomodoroTimers.e) : WellFormedTimer(doc.f.pomodoroTimers.e[i].v)

ResultTasks == IF result.t = "object" THEN result.f.tasks.a ELSE <<>>

\* C17: every task of a document the server normalized has a non-empty id,
\* and no two of its tasks have the same id, also when the input held tasks
\* with blank ids or several tasks with one id.
C17_TaskIdsDistinct ==
    pc = "server" =>
        \A i \in 1..Len(ResultTasks) :
            /\ TaskId(ResultTasks[i]) # <<>>
            /\ \A j \in 1..(i - 1) : TaskId(ResultTasks[j]) # TaskId(ResultTasks[i])

\* C18: every task of a document the server normalized has a priority among
\* High, Medium, Low and a taskType among Work, Learning, Meeting, whatever
\* the input carried.
C18_PriorityAndTypeInRange ==
    pc = "server" =>
        \A i \in 1..Len(ResultTasks) :
            /\ ToStr(Prop(ResultTasks[i], "priority")) \in {High, Medium, Low}
            /\ ToStr(Prop(ResultTasks[i], "taskType")) \in {Work, Learning, Meeting}

----------------------------------------------------------------------------
(* The stored payload damaged behind the server's back *)

\* a payload JSON.parse rejects
Unparseable == [t |-> "unparseable", n |-> 0, s |-> <<>>]

\* the payload column is overwritten with text that is no JSON
CorruptStore ==
    /\ store # Unparseable
    /\ store' = Unparseable
    /\ UNCHANGED <<net, load, clientVars, uuid, clock, pureVars>>

NextCorrupt ==
    \/ ServerGet
    \/ LoadResolve
    \/ EditTaskName
    \/ SubmitForm
    \/ MenuToggleDone
    \/ Deliver
    \/ CorruptStore
    \/ Reopen

SpecCorrupt == Init /\ [][NextCorrupt]_vars

\* C20: when the stored payload is no JSON, GET /api/state answers 200 with
\* the default document, leaves that document in the row, and a following
\* GET answers the same document.
C20_UnparseableRowRepaired ==
    [][(store = Unparseable /\ ServerGet) =>
        /\ load'.resp.status = 200
        /\ load'.resp.body = Json(defaultState)
        /\ store' = load'.resp.body
        /\ getState(store', clock', uuid').status = 200
        /\ getState(store', clock', uuid').body = load'.resp.body
        /\ getState(store', clock', uuid').row = store']_vars

\* a task was saved, the payload was damaged, and the GET of a reopened page
\* has been answered with the default document, now in the row
C20_Witness ==
    /\ uuid > 0
    /\ net = {}
    /\ load.phase = "answered"
    /\ load.resp.status = 200
    /\ load.resp.body = Json(defaultState)
    /\ store = load.resp.body

----------------------------------------------------------------------------
(* The view of a planner that holds three tasks of different priority *)

NameB == <<"B">>
NameC == <<"C">>

\* the tasks the form gives for: B, Low; A, High, a meeting in category A;
\* C, Medium, learning
taskB == newTask([initialForm EXCEPT !.taskName = NameB, !.priority = Low], Uuid(0), 1)
taskA ==
    newTask([initialForm EXCEPT !.taskName = NameA, !.priority = High,
                                !.category = NameA, !.taskType = Meeting],
            Uuid(1), 2)
taskC ==
    newTask([initialForm EXCEPT !.taskName = NameC, !.taskType = Learning], Uuid(2), 3)

\* the page has loaded, category A was added, the three tasks were added in
\* the order B, A, C, and every save was handled
ThreeTasksSaved ==
    LET doc == [createDefaultState EXCEPT
                    !.f.categories = StrArr(<<NameA, General>>),
                    !.f.categoryColors = MapSet(createDefaultState.f.categoryColors,
                                                NameA, JStr(Red)),
                    !.f.tasks = JArr(<<taskB, taskA, taskC>>)]
    IN  /\ data = doc
        /\ store = Json(normalizeState(Json(doc), 4, 3))
        /\ net = {}
        /\ load = [phase |-> "done",
                   resp |-> [status |-> 200, body |-> Json(normalizeState(defaultState, 1, 0))]]
        /\ sortBy = Priority
        /\ pomodoroTimers = JMap(<<>>)
        /\ timersSame = TRUE
        /\ isStateLoaded = TRUE
        /\ form = [initialForm EXCEPT !.category = NameA]
        /\ filters = initialFilters
        /\ alerted = <<>>
        /\ uuid = 3
        /\ clock = 4

InitView == ThreeTasksSaved /\ NoPure /\ pc = "system"

\* the selects and buttons of the toolbar (lines 1212-1272)
PickFilterType == \E v \in {All, Meeting} : Ready /\ filters.type # v /\ setFilterType(v)
PickFilterCategory ==
    \E v \in {All, NameA} : Ready /\ filters.category # v /\ setFilterCategory(v)
PickFilterStatus ==
    \E v \in {All, Pending, Completed} : Ready /\ filters.status # v /\ setFilterStatus(v)
PickSortBy ==
    \E v \in {Priority, <<"c", "r", "e", "a", "t", "e", "d", "A", "t">>} :
        Ready /\ sortBy # v /\ updateSortBy(v)
ResetFilters == Ready /\ resetFilters
ToggleShowAll == Ready /\ toggleShowAll

NextView ==
    \/ PickFilterType
    \/ PickFilterCategory
    \/ PickFilterStatus
    \/ PickSortBy
    \/ ResetFilters
    \/ ToggleShowAll
    \/ MenuToggleDone
    \/ MenuHide
    \/ MenuRestore
    \/ DragAndDrop
    \/ Deliver

SpecView == InitView /\ [][NextView]_vars

\* the filter as the specification words it
IsToBeListed(task) ==
    /\ Prop(task, "date") = data.f.selectedDate
    /\ filters.showAll \/ Prop(task, "hidden") = JBool(FALSE)
    /\ filters.type = All \/ Prop(task, "taskType") = JStr(filters.type)
    /\ filters.category = All \/ Prop(task, "category") = JStr(filters.category)
    /\ \/ filters.status = All
       \/ filters.status = Pending /\ Prop(task, "done") = JBool(FALSE)
       \/ filters.status = Completed /\ Prop(task, "done") = JBool(TRUE)

Items(xs) == {xs[i] : i \in 1..Len(xs)}

ViewNames == [i \in 1..Len(visibleTasks) |-> TaskStr(visibleTasks[i], "name")]
ViewPriorities == [i \in 1..Len(visibleTasks) |-> TaskStr(visibleTasks[i], "priority")]

\* C16: under sortBy = priority no Medium or Low task comes before a High
\* task and no Low task before a Medium task in visibleTasks, whatever the
\* order of data.tasks.
C16_PrioritySort ==
    sortBy = Priority =>
        \A i, j \in 1..Len(visibleTasks) :
            i < j =>
                /\ ViewPriorities[j] = High => ViewPriorities[i] = High
                /\ ViewPriorities[j] = Medium => ViewPriorities[i] \in {High, Medium}

\* data.tasks holds C (Medium), B (Low), A (High) in that order after a
\* manual reorder; back under sortBy = priority the view is A, C, B
C16_Witness ==
    /\ sortBy = Priority
    /\ [i \in 1..Len(Tasks) |-> TaskStr(Tasks[i], "name")] = <<NameC, NameB, NameA>>
    /\ ViewNames = <<NameA, NameC, NameB>>

----------------------------------------------------------------------------
(* Three tasks reordered by hand, moved to the next day, the date changed *)

\* the date input of the toolbar (line 1215)
PickDate == \E v \in {Today, Tomorrow} :
                Ready /\ data.f.selectedDate # JStr(v) /\ changeSelectedDate(v)

NextOrder ==
    \/ DragAndDrop
    \/ MenuMove
    \/ PickDate
    \/ Deliver

SpecOrder == InitView /\ [][NextOrder]_vars

\* the tasks of a document dated its selectedDate
SameDayOf(doc) ==
    SelectSeq(doc.f.tasks.a, LAMBDA task : Prop(task, "date") = doc.f.selectedDate)

IdsOf(tasks) == [i \in 1..Len(tasks) |-> TaskId(tasks[i])]

Count(xs, x) == Cardinality({i \in 1..Len(xs) : xs[i] = x})

\* every task carries a number as order, and the orders are 0..n-1, each once
OrdersContiguous(tasks) ==
    /\ \A i \in 1..Len(tasks) : IsFiniteNumber(Prop(tasks[i], "order"))
    /\ \A k \in 0..(Len(tasks) - 1) :
        Cardinality({i \in 1..Len(tasks) : Prop(tasks[i], "order") = JNum(k)}) = 1

\* C12: a reorder of a onto b, two different tasks of the selected date,
\* leaves the same ids among the tasks of that date, each as often as
\* before, and these tasks carry the orders 0..n-1, each once.
C12_ReorderIsPermutation ==
    [][\A a \in VisibleIds, b \in VisibleIds :
        (a # b /\ reorderTasksWithinDay(a, b)) =>
            /\ \A id \in Items(IdsOf(Tasks)) \cup Items(IdsOf(Tasks')) :
                Count(IdsOf(SameDayOf(data')), id) = Count(IdsOf(SameDayOf(data)), id)
            /\ OrdersContiguous(SameDayOf(data'))]_vars

\* the three tasks of the day were reordered to A, B, C and carry 0, 1, 2;
\* the save is on its way
C12_Witness ==
    /\ net # {}
    /\ sortBy = Manual
    /\ IdsOf(SameDayOf(data)) = <<Uuid(1), Uuid(0), Uuid(2)>>
    /\ [i \in 1..3 |-> Prop(SameDayOf(data)[i], "order")] = <<JNum(0), JNum(1), JNum(2)>>

----------------------------------------------------------------------------
(* Every operation of the planner at hand *)

\* seconds of a countdown that are followed
MaxTicks == 1

\* no running timer has been followed for MaxTicks seconds yet
TicksLeft ==
    \A i \in 1..Len(pomodoroTimers.e) :
        Truthy(pomodoroTimers.e[i].v.f.isRunning) =>
            pomodoroTimers.e[i].v.f.remainingSeconds.n
                > pomodoroTimers.e[i].v.f.durationSeconds.n - MaxTicks

\* the ids of the tasks held
HeldIds == {TaskId(Tasks[i]) : i \in 1..Len(Tasks)}

\* the task added first
FirstHeld == HeldIds \cap {Uuid(0)}

\* the handlers called with the id of any task held, listed or not
CallToggleDone == \E id \in HeldIds : Ready /\ toggleDone(id)
CallHide == \E id \in HeldIds : Ready /\ ~IsHidden(id) /\ hideTask(id)
CallRestore == \E id \in HeldIds : Ready /\ IsHidden(id) /\ restoreTask(id)
CallMove == \E id \in HeldIds : Ready /\ CanBeShifted(id) /\ moveTaskToNextDay(id)
CallClone ==
    \E id \in HeldIds : Ready /\ uuid < MaxTasks /\ CanBeShifted(id) /\ cloneTaskToNextDay(id)
CallReorder ==
    \E source \in HeldIds, target \in HeldIds : Ready /\ reorderTasksWithinDay(source, target)

\* the timers, the sort select, the date input and the category settings
\* as a freshly loaded planner has them
TimersIdle == pomodoroTimers.e = <<>>
SortIdle == sortBy = Priority
DateIdle == data.f.selectedDate = JStr(Today)
CategoriesIdle == Categories = <<General>>

\* the timer handlers called for the task added first, the other controls
\* being idle
CallStartTimer ==
    \E id \in FirstHeld, answer \in PromptAnswers :
        /\ Ready /\ SortIdle /\ DateIdle /\ CategoriesIdle
        /\ ~shownRunning(id)
        /\ startPomodoro(id, answer)
CallPauseTimer ==
    \E id \in FirstHeld :
        /\ Ready /\ SortIdle /\ DateIdle /\ CategoriesIdle
        /\ shownRunning(id)
        /\ pausePomodoro(id)
CallResetTimer ==
    \E id \in FirstHeld :
        Ready /\ SortIdle /\ DateIdle /\ CategoriesIdle /\ resetPomodoro(id)
FollowedTick == TicksLeft /\ SortIdle /\ DateIdle /\ CategoriesIdle /\ Tick

\* the sort select and the date input, the other controls being idle
CallUpdateSortBy == TimersIdle /\ DateIdle /\ CategoriesIdle /\ PickSortBy
CallChangeSelectedDate == TimersIdle /\ SortIdle /\ CategoriesIdle /\ PickDate

\* the category settings, the other controls being idle
CallAddCategory == TimersIdle /\ SortIdle /\ DateIdle /\ Ready /\ addCategory(SpaceA, Red)
CallDeleteCategory == TimersIdle /\ SortIdle /\ DateIdle /\ DeleteCategory

\* a name typed into the empty name field
TypeTaskName == isStateLoaded /\ form.taskName = <<>> /\ updateForm("taskName", NameA)

NextPlanner ==
    \/ ServerGet
    \/ LoadResolve
    \/ TypeTaskName
    \/ SubmitForm
    \/ CallToggleDone
    \/ CallHide
    \/ CallRestore
    \/ CallMove
    \/ CallClone
    \/ CallReorder
    \/ CallAddCategory
    \/ CallDeleteCategory
    \/ CallUpdateSortBy
    \/ CallChangeSelectedDate
    \/ CallStartTimer
    \/ CallPauseTimer
    \/ CallResetTimer
    \/ FollowedTick
    \/ Deliver

SpecPlanner == Init /\ [][NextPlanner]_vars

\* C11: no step of the client takes a task away: every task id of the
\* in-memory state is a task id of the state after the step.
C11_NoTaskDeleted ==
    [][\A id \in Items(IdsOf(Tasks)) : Count(IdsOf(Tasks'), id) >= 1]_vars

\* two tasks are held after one was moved or cloned to the next day, one
\* completed, and category A, which the stored document still gives to a
\* task, deleted
C11_Witness ==
    /\ Len(Tasks) = 2
    /\ \E i \in 1..2 : Prop(Tasks[i], "date") = JStr(Tomorrow)
    /\ \E i \in 1..2 : Truthy(Prop(Tasks[i], "done")) /\ Truthy(Prop(Tasks[i], "hidden"))
    /\ Includes(StoredCategories, NameA)
    /\ \E i \in 1..Len(store.f.tasks.a) : store.f.tasks.a[i].f.category = JStr(NameA)
    /\ ~Includes(Categories, NameA)
    /\ \A i \in 1..2 : Prop(Tasks[i], "category") = JStr(General)

----------------------------------------------------------------------------
(* Bodies put to /api/state by any client of the API *)

\* req.body as the handler of lines 157-170 may find it
PutBodies ==
    {JUndef, JNull, JNum(7), JStr(NameA), JBool(TRUE),
     JArr(<<>>), JArr(<<JStr(NameA)>>), JMap(<<>>),
     RawDoc(JArr(<<JStr(NameA)>>), JUndef, JArr(<<baseTask>>), JUndef, JStr(Manual), JUndef)}

\* a request sent to PUT /api/state by some other client
ForeignPut ==
    /\ Quiet
    /\ \E body \in PutBodies : net' = {body}
    /\ UNCHANGED <<store, load, clientVars, uuid, clock, pureVars>>

\* lines 163-169 when upsertStateStmt.run throws: the catch answers 500
putStateStorageFails(row, body, now, id) ==
    IF ~Truthy(body) \/ ~IsObjectType(body) THEN [status |-> 400, row |-> row]
    ELSE [status |-> 500, row |-> row]

\* the server handles a save while the database refuses the write
ServerPutStorageFails(m) ==
    /\ m \in net
    /\ net' = net \ {m}
    /\ store' = putStateStorageFails(store, m, clock, uuid).row
    /\ uuid' = uuid + DrawnFor(m)
    /\ UNCHANGED <<load, clientVars, clock, pureVars>>

DeliverStorageFails == \E m \in net : ServerPutStorageFails(m)

NextPut ==
    \/ ServerGet
    \/ LoadResolve
    \/ EditTaskName
    \/ SubmitForm
    \/ MenuToggleDone
    \/ ForeignPut
    \/ Deliver
    \/ DeliverStorageFails
    \/ Reopen

SpecPut == Init /\ [][NextPut]_vars

\* a JSON object: neither missing, nor a primitive, nor an array
IsJsonObject(body) == body.t \in {"object", "map"}

\* C21: PUT /api/state with a body that is not a JSON object (missing, a
\* primitive or an array) answers 400 and leaves the stored document as it
\* was; with a JSON object it stores the normalized body and answers 200
\* {ok: true}; when the storage fails on an object the answer is 500.
C21_PutValidatesBody ==
    [][\A m \in net :
        /\ ServerPut(m) =>
            IF IsJsonObject(m)
            THEN /\ putState(store, m, clock, uuid).status = 200
                 /\ store' = Json(normalizeState(m, clock, uuid))
            ELSE /\ putState(store, m, clock, uuid).status = 400
                 /\ store' = store
        /\ (ServerPutStorageFails(m) /\ IsJsonObject(m)) =>
            /\ putStateStorageFails(store, m, clock, uuid).status = 500
            /\ store' = store]_vars

----------------------------------------------------------------------------
(* Saves that fail: the request is lost, or the database refuses the write *)

\* lines 397-399 and 462-464 with the stored document loaded back
saveRejectedRollsBack(m) ==
    /\ m \in net
    /\ net' = net \ {m}
    /\ data' = LoadedFrom(store)
    /\ UNCHANGED <<store, load, sortBy, pomodoroTimers, timersSame, isStateLoaded, form,
                   filters, alerted, uuid, clock, pureVars>>

\* lines 348-354, 397-399 and 462-464: the fetch of saveStateToDb rejects,
\* the catch logs the error
saveRejected(m) ==
    /\ m \in net
    /\ net' = net \ {m}
    /\ UNCHANGED <<store, load, clientVars, uuid, clock, pureVars>>

\* a save that never reaches the server
SaveLost == \E m \in net : saveRejected(m)

NextSaveFails ==
    \/ ServerGet
    \/ LoadResolve
    \/ TypeTaskName
    \/ SubmitForm
    \/ MenuToggleDone
    \/ MenuHide
    \/ PickSortBy
    \/ Deliver
    \/ DeliverStorageFails
    \/ SaveLost
    \/ Reopen

SpecSaveFails == Init /\ [][NextSaveFails]_vars

\* the handlers of the loaded planner can run
OperationsEnabled ==
    /\ \A id \in HeldIds :
        /\ ENABLED toggleDone(id)
        /\ ENABLED hideTask(id)
        /\ ENABLED restoreTask(id)
        /\ ENABLED pausePomodoro(id)
    /\ ENABLED updateSortBy(Manual)
    /\ ENABLED changeSelectedDate(Tomorrow)
    /\ hasNameAndDate(form) => ENABLED submitTask

\* C22: a failed save is not fatal.  Whether a save is lost, refused by the
\* database or stored, the client state after it is the client state before
\* it, which is the state the mutation left (no rollback); the failed
\* request is gone and no other request is issued (no retry); and in every
\* state of the loaded planner, those after a failed save included, the
\* handlers remain enabled.
C22_FailedSaveNonFatal ==
    /\ [][\A m \in net :
            /\ (saveRejected(m) \/ ServerPutStorageFails(m)) =>
                    (UNCHANGED clientVars /\ net' = net \ {m})
            /\ ServerPut(m) => UNCHANGED clientVars]_vars
    /\ [](isStateLoaded => OperationsEnabled)

\* a task was added and its save failed; it was then completed, and that
\* save, which the server has not stored either, is on its way
C22_Witness ==
    /\ Len(Tasks) = 1
    /\ Truthy(Prop(Tasks[1], "done"))
    /\ store.f.tasks.a = <<>>
    /\ net # {}

----------------------------------------------------------------------------
(* The timer handlers called for any task, the prompt answered in any way *)

\* what window.prompt("Set timer in minutes", "30") returns: the text
\* typed, or null on Cancel
DurationAnswers ==
    {JStr(<<"1">>), JStr(<<"2">>), JStr(<<"0">>), JStr(<<"-", "1">>), JStr(<<"x">>),
     JStr(<<>>), JStr(<<"1", "x">>), JNull}

\* the handlers called with the id of any task held, whatever its button shows
StartAnyTimer ==
    \E id \in HeldIds, answer \in DurationAnswers : Ready /\ startPomodoro(id, answer)
PauseAnyTimer == \E id \in HeldIds : Ready /\ pausePomodoro(id)
ResetAnyTimer == \E id \in HeldIds : Ready /\ resetPomodoro(id)

\* the first seconds of a countdown
FirstTicks == TicksLeft /\ Tick

NextPomodoro ==
    \/ StartAnyTimer
    \/ PauseAnyTimer
    \/ ResetAnyTimer
    \/ FirstTicks
    \/ Deliver

SpecPomodoro == InitTimer /\ [][NextPomodoro]_vars

\* the timer of this task has run down: an entry with remainingSeconds = 0
IsExpired(taskId) ==
    /\ Truthy(TimerOf(pomodoroTimers, taskId))
    /\ Prop(TimerOf(pomodoroTimers, taskId), "remainingSeconds") = JNum(0)

\* C23: start(id) on an expired timer (an entry with remainingSeconds = 0)
\* is a no-op: whatever the prompt would be answered, the entry stays at
\* remainingSeconds = 0, isRunning = false with its durationSeconds
\* unchanged, and no duration is requested, so the handler is through
\* without asking.
C23_StartOnExpiredIsNoOp ==
    [][\A id \in VisibleIds, answer \in PromptAnswers :
        (IsExpired(id) /\ startPomodoro(id, answer))
            => TimerOf(pomodoroTimers', id) = TimerOf(pomodoroTimers, id)]_vars

\* the texts of DurationAnswers that are no positive number of minutes
BadDurations == {JStr(<<"0">>), JStr(<<"-", "1">>), JStr(<<"x">>), JStr(<<>>)}

\* C24: a non-positive or non-numeric duration entered on start is rejected
\* before any mutation: pomodoroTimers and the planner state are left as
\* they were and no save is issued.
C24_BadDurationRejected ==
    [][\A id \in HeldIds, answer \in BadDurations :
        (~canResume(TimerOf(pomodoroTimers, id)) /\ startPomodoro(id, answer))
            => (pomodoroTimers' = pomodoroTimers /\ data' = data /\ net' = net)]_vars

\* the task has no timer entry
IsAbsent(taskId) == ~Truthy(TimerOf(pomodoroTimers, taskId))

\* every entry but the one of this task is as it was
OtherTimersKept(taskId) ==
    \A other \in HeldIds \ {taskId} :
        TimerOf(pomodoroTimers', other) = TimerOf(pomodoroTimers, other)

\* C25: start(id) on an absent timer with m minutes requested creates the
\* entry {remainingSeconds = 60*m, durationSeconds = 60*m, isRunning = true}
\* when m is a positive integer (1 and 2 here), and takes m = 30 when the
\* answer is no number or not positive; a cancelled request is no step of
\* the handler and creates no entry.
C25_StartCreatesTimer ==
    [][\A id \in HeldIds :
        IsAbsent(id) =>
            /\ startPomodoro(id, JStr(<<"1">>)) => TimerOf(pomodoroTimers', id) = FreshTimer(1)
            /\ startPomodoro(id, JStr(<<"2">>)) => TimerOf(pomodoroTimers', id) = FreshTimer(2)
            /\ \A answer \in BadDurations :
                startPomodoro(id, answer) => TimerOf(pomodoroTimers', id) = FreshTimer(30)
            /\ ~startPomodoro(id, JNull)
            /\ startedTimers(pomodoroTimers, id, JNull) = pomodoroTimers]_vars

\* one timer was started for two minutes, the other with an answer that is
\* no positive number; both run untouched
C25_Witness ==
    \E i, j \in 1..Len(pomodoroTimers.e) :
        /\ pomodoroTimers.e[i].v = FreshTimer(2)
        /\ pomodoroTimers.e[j].v = FreshTimer(30)

\* C26: start(id) on an existing timer with remainingSeconds > 0 sets
\* isRunning = true and leaves its remainingSeconds and durationSeconds,
\* and every other timer entry, unchanged, whatever the prompt would give.
C26_StartResumes ==
    [][\A id \in HeldIds, answer \in DurationAnswers :
        (/\ ~IsAbsent(id)
         /\ Prop(TimerOf(pomodoroTimers, id), "remainingSeconds").n > 0
         /\ startPomodoro(id, answer))
            => /\ Prop(TimerOf(pomodoroTimers', id), "isRunning") = JBool(TRUE)
               /\ Prop(TimerOf(pomodoroTimers', id), "remainingSeconds")
                    = Prop(TimerOf(pomodoroTimers, id), "remainingSeconds")
               /\ Prop(TimerOf(pomodoroTimers', id), "durationSeconds")
                    = Prop(TimerOf(pomodoroTimers, id), "durationSeconds")
               /\ OtherTimersKept(id)]_vars

\* a two-minute timer runs with a second gone and its save on the way,
\* as after pause and start, while the other timer waits paused
C26_Witness ==
    \E i, j \in 1..Len(pomodoroTimers.e) :
        /\ pomodoroTimers.e[i].v = [FreshTimer(2) EXCEPT !.f.remainingSeconds = JNum(119)]
        /\ pomodoroTimers.e[j].v = [FreshTimer(1) EXCEPT !.f.remainingSeconds = JNum(59),
                                                         !.f.isRunning = JBool(FALSE)]
        /\ net # {}

\* C27: pause(id) sets isRunning = false and keeps remainingSeconds and
\* durationSeconds of an existing entry; when no entry exists it creates
\* {remainingSeconds = 1800, durationSeconds = 1800, isRunning = false}.
C27_PauseKeepsTime ==
    [][\A id \in HeldIds :
        pausePomodoro(id) =>
            IF IsAbsent(id)
            THEN TimerOf(pomodoroTimers', id)
                    = [FreshTimer(30) EXCEPT !.f.isRunning = JBool(FALSE)]
            ELSE /\ Prop(TimerOf(pomodoroTimers', id), "isRunning") = JBool(FALSE)
                 /\ Prop(TimerOf(pomodoroTimers', id), "remainingSeconds")
                      = Prop(TimerOf(pomodoroTimers, id), "remainingSeconds")
                 /\ Prop(TimerOf(pomodoroTimers', id), "durationSeconds")
                      = Prop(TimerOf(pomodoroTimers, id), "durationSeconds")]_vars

\* a one-minute timer paused with a second gone, and the paused entry of
\* full default length that pausing a task without a timer leaves
C27_Witness ==
    \E i, j \in 1..Len(pomodoroTimers.e) :
        /\ pomodoroTimers.e[i].v = [FreshTimer(1) EXCEPT !.f.remainingSeconds = JNum(59),
                                                         !.f.isRunning = JBool(FALSE)]
        /\ pomodoroTimers.e[j].v = [FreshTimer(30) EXCEPT !.f.isRunning = JBool(FALSE)]

\* C28: reset(id) takes the entry of id from pomodoroTimers and leaves every
\* other entry and all tasks unchanged; without an entry the handler takes
\* no step: nothing changes and no save is issued.
C28_ResetRemovesEntry ==
    [][\A id \in HeldIds :
        resetPomodoro(id) =>
            /\ ~IsAbsent(id)
            /\ id \notin MapKeys(pomodoroTimers')
            /\ Len(pomodoroTimers'.e) = Len(pomodoroTimers.e) - 1
            /\ OtherTimersKept(id)
            /\ Tasks' = Tasks]_vars

\* of two timers one was reset and is absent again, its save on the way;
\* the other is still paused where it was
C28_Witness ==
    /\ Len(Tasks) = 2
    /\ Len(pomodoroTimers.e) = 1
    /\ pomodoroTimers.e[1].v = [FreshTimer(1) EXCEPT !.f.remainingSeconds = JNum(59),
                                                     !.f.isRunning = JBool(FALSE)]
    /\ \E m \in net : m.f.pomodoroTimers = pomodoroTimers

----------------------------------------------------------------------------
(* One tick of the interval over all timers *)

\* C29: one tick is a single update in which every running timer's
\* remainingSeconds becomes max(remainingSeconds - 1, 0) and its isRunning
\* becomes false exactly when the new remainingSeconds is 0; paused timers
\* are unchanged and no entry appears for a task that had none; there is no
\* tick while no timer runs, and the update itself gives back the timers it
\* was given then.
C29_TickIsOneUpdate ==
    /\ [][tick =>
            /\ hasRunningPomodoro
            /\ MapKeys(pomodoroTimers') = MapKeys(pomodoroTimers)
            /\ \A id \in MapKeys(pomodoroTimers) :
                LET before == TimerOf(pomodoroTimers, id)
                    after == TimerOf(pomodoroTimers', id)
                IN  IF Truthy(Prop(before, "isRunning"))
                    THEN /\ Prop(after, "remainingSeconds")
                              = JNum(Max(Prop(before, "remainingSeconds").n - 1, 0))
                         /\ Truthy(Prop(after, "isRunning"))
                              = (Prop(after, "remainingSeconds") # JNum(0))
                    ELSE after = before]_vars
    /\ [](~hasRunningPomodoro => tickedTimers(pomodoroTimers) = pomodoroTimers)

\* two timers started a second apart run down together
C29_Witness ==
    \E i, j \in 1..Len(pomodoroTimers.e) :
        /\ Truthy(pomodoroTimers.e[i].v.f.isRunning)
        /\ Truthy(pomodoroTimers.e[j].v.f.isRunning)
        /\ pomodoroTimers.e[i].v.f.remainingSeconds = JNum(30)
        /\ pomodoroTimers.e[j].v.f.remainingSeconds = JNum(31)

----------------------------------------------------------------------------
(* Completion toggled *)

\* C30: toggleDone(id) is one toggle of completion that also flips hidden:
\* a task with done = false comes out with done = true and hidden = true, a
\* task with done = true with done = false and hidden = false; every other
\* task is unchanged.
C30_ToggleFlipsDoneAndHidden ==
    [][\A id \in VisibleIds :
        toggleDone(id) =>
            /\ Len(Tasks') = Len(Tasks)
            /\ \A i \in 1..Len(Tasks) :
                IF TaskId(Tasks[i]) # id THEN Tasks'[i] = Tasks[i]
                ELSE IF Truthy(Prop(Tasks[i], "done"))
                THEN /\ Prop(Tasks'[i], "done") = JBool(FALSE)
                     /\ Prop(Tasks'[i], "hidden") = JBool(FALSE)
                ELSE /\ Prop(Tasks'[i], "done") = JBool(TRUE)
                     /\ Prop(Tasks'[i], "hidden") = JBool(TRUE)]_vars

----------------------------------------------------------------------------
(* reorderTasksWithinDay called for any two tasks held *)

NextReorder ==
    \/ CallReorder
    \/ MenuHide
    \/ ToggleShowAll
    \/ MenuMove
    \/ PickDate
    \/ Deliver

SpecReorder == InitView /\ [][NextReorder]_vars

\* the effective rank of the i-th of these tasks: its order when it
\* carries a number, its index otherwise
EffectiveRank(tasks, i) ==
    IF IsFiniteNumber(Prop(tasks[i], "order")) THEN Prop(tasks[i], "order").n ELSE i - 1

\* how many of these tasks come before the i-th by effective rank, the
\* earlier of two tasks of equal rank first
RankPosition(tasks, i) ==
    1 + Cardinality({j \in 1..Len(tasks) :
                        \/ EffectiveRank(tasks, j) < EffectiveRank(tasks, i)
                        \/ EffectiveRank(tasks, j) = EffectiveRank(tasks, i) /\ j < i})

\* these tasks by ascending effective rank
ByRank(tasks) ==
    [p \in 1..Len(tasks) |-> tasks[CHOOSE i \in 1..Len(tasks) : RankPosition(tasks, i) = p]]

Without(xs, x) == SelectSeq(xs, LAMBDA y : y # x)

PositionOf(xs, x) == CHOOSE i \in 1..Len(xs) : xs[i] = x

\* C31: after reorder(source, target) the source task is at the rank
\* position the target held before, and the other tasks of the day follow
\* one another by effective rank as they did before.
C31_SourceTakesTargetRank ==
    [][\A source \in HeldIds, target \in HeldIds :
        reorderTasksWithinDay(source, target) =>
            LET before == IdsOf(ByRank(SameDayOf(data)))
                after == IdsOf(ByRank(SameDayOf(data')))
            IN  /\ after[PositionOf(before, target)] = source
                /\ Without(after, source) = Without(before, source)]_vars

\* the task added first was dragged from the head of the day onto the last
\* task: it is last now, the other two moved up
C31_Witness ==
    /\ sortBy = Manual
    /\ IdsOf(ByRank(SameDayOf(data))) = <<Uuid(1), Uuid(2), Uuid(0)>>
    /\ net # {}

\* the task of this id is dated the selected date
OnSelectedDate(taskId) == \E i \in 1..Len(Tasks) : TaskId(Tasks[i]) = taskId /\ IsSameDay(Tasks[i])

\* C32: reorder(source, target) is a no-op when the ids are equal or either
\* id is not among the tasks of selectedDate: the handler takes a step only
\* for two different tasks of the selected date, so tasks, order values and
\* sortBy stay and no save is issued otherwise.
C32_ReorderRejected ==
    [][\A source \in HeldIds, target \in HeldIds :
        reorderTasksWithinDay(source, target) =>
            /\ source # target
            /\ OnSelectedDate(source)
            /\ OnSelectedDate(target)]_vars

\* one task was moved to the next day; no reorder has been accepted: the
\* view is sorted as loaded and no task carries an order
C32_Witness ==
    /\ \E i \in 1..Len(Tasks) : ~IsSameDay(Tasks[i])
    /\ \E i, j \in 1..Len(Tasks) : i # j /\ IsSameDay(Tasks[i]) /\ IsSameDay(Tasks[j])
    /\ sortBy = Priority
    /\ \A i \in 1..Len(Tasks) : ~IsFiniteNumber(Prop(Tasks[i], "order"))
    /\ net = {}

\* the task but for its order
OrderLeftOut(task) == SetField(task, "order", JUndef)

\* C33: a successful reorder leaves every task dated another day as it was,
\* order included, changes no field but order on the tasks of the selected
\* date, and leaves sortBy = manual in the document and in the view.
C33_ReorderFrame ==
    [][\A source \in HeldIds, target \in HeldIds :
        reorderTasksWithinDay(source, target) =>
            /\ \A i \in 1..Len(Tasks) :
                LET after == TaskOf(data', TaskId(Tasks[i]))
                IN  IF IsSameDay(Tasks[i])
                    THEN OrderLeftOut(after) = OrderLeftOut(Tasks[i])
                    ELSE after = Tasks[i]
            /\ Len(Tasks') = Len(Tasks)
            /\ data'.f.sortBy = JStr(Manual)
            /\ sortBy' = Manual
            /\ data'.f.selectedDate = data.f.selectedDate]_vars

\* two tasks of the day were reordered while the third, moved to the next
\* day before, carries no order
C33_Witness ==
    /\ sortBy = Manual
    /\ data.f.sortBy = JStr(Manual)
    /\ \E i \in 1..Len(Tasks) :
        ~IsSameDay(Tasks[i]) /\ ~IsFiniteNumber(Prop(Tasks[i], "order"))
    /\ \E i, j \in 1..Len(Tasks) :
        /\ IsSameDay(Tasks[i]) /\ IsSameDay(Tasks[j])
        /\ Prop(Tasks[i], "order") = JNum(0) /\ Prop(Tasks[j], "order") = JNum(1)
        /\ TaskId(Tasks[i]) = Uuid(2)

\* no filter keeps a task of the selected date from the list
NoFilterActive ==
    /\ filters.type = All /\ filters.category = All /\ filters.status = All
    /\ filters.showAll \/ \A i \in 1..Len(Tasks) : ~Truthy(Prop(Tasks[i], "hidden"))

\* the tasks of the selected date carry the orders 0, 1, 2, ... in the
\* order data.tasks has them, as reorderTasksWithinDay leaves them
InReorderSequence ==
    \A i \in 1..Len(SameDayOf(data)) : Prop(SameDayOf(data)[i], "order") = JNum(i - 1)

\* C34: under sortBy = manual, visibleTasks is the filtered list by
\* ascending task.order, a task without a numeric order taking its index in
\* the filtered list as rank; a reorder leaves the tasks of the day in the
\* sequence it produced, and with no filter active the manual view of such
\* a state is that sequence.
C34_ManualViewFollowsOrder ==
    /\ [](sortBy = Manual =>
            /\ visibleTasks = ByRank(filteredTasks)
            /\ (NoFilterActive /\ InReorderSequence) => visibleTasks = SameDayOf(data))
    /\ [][\A source \in HeldIds, target \in HeldIds :
            reorderTasksWithinDay(source, target) =>
                (sortBy' = Manual /\ InReorderSequence')]_vars

\* the manual view lists a task without an order, ranked by its index,
\* together with tasks that carry one
C34_Witness ==
    /\ sortBy = Manual
    /\ \E i \in 1..Len(visibleTasks) : ~IsFiniteNumber(Prop(visibleTasks[i], "order"))
    /\ \E i \in 1..Len(visibleTasks) : IsFiniteNumber(Prop(visibleTasks[i], "order"))

----------------------------------------------------------------------------
(* The sort of the view applied to any three tasks of equal priority *)

NameAB == <<"A", "B">>

\* meeting times as the form of lines 541-545 builds them, in the order of
\* the day: 12:30 AM, 09:00 AM, 12:15 PM, 01:00 PM
MeetingClocks ==
    <<[h |-> <<"1", "2">>, m |-> <<"3", "0">>, ap |-> <<"A", "M">>],
      [h |-> <<"0", "9">>, m |-> <<"0", "0">>, ap |-> <<"A", "M">>],
      [h |-> <<"1", "2">>, m |-> <<"1", "5">>, ap |-> <<"P", "M">>],
      [h |-> <<"0", "1">>, m |-> <<"0", "0">>, ap |-> <<"P", "M">>]>>

MeetingLabels ==
    [i \in 1..Len(MeetingClocks) |->
        buildMeetingTime([initialForm EXCEPT !.taskType = Meeting,
                                             !.meetingHour = MeetingClocks[i].h,
                                             !.meetingMinute = MeetingClocks[i].m,
                                             !.meetingAmPm = MeetingClocks[i].ap])]

\* a meeting time of a loaded document that is not such a label, or none
OtherLabels == {<<>>, <<"s", "o", "o", "n">>}

\* tasks of priority Medium: Meetings named A or B at these times, and Work
\* tasks named A, AB or B
SortMeetings ==
    {SetField(newTask([initialForm EXCEPT !.taskName = name, !.taskType = Meeting],
                      Uuid(0), 1),
              "meetingTime", JStr(label)) :
        name \in {NameA, NameB},
        label \in {MeetingLabels[i] : i \in 1..Len(MeetingLabels)} \cup OtherLabels}

SortOthers ==
    {newTask([initialForm EXCEPT !.taskName = name], Uuid(0), 1) :
        name \in {NameA, NameAB, NameB}}

\* three of them, the k-th with the k-th identifier
SortInputs ==
    {JArr([k \in 1..3 |-> SetField(<<a, b, c>>[k], "id", JStr(Uuid(k - 1)))]) :
        a \in SortMeetings \cup SortOthers,
        b \in SortMeetings \cup SortOthers,
        c \in SortMeetings \cup SortOthers}

InitSort ==
    /\ ServerInit
    /\ ClientInit
    /\ net = {}
    /\ uuid = 3
    /\ clock = 2
    /\ input \in SortInputs
    /\ result = JUndef
    /\ again = JUndef
    /\ pc = "start"

\* lines 821-846 on the input, under the sortBy of a freshly mounted App
ApplySort ==
    /\ pc = "start"
    /\ result' = JArr(sortTasks(input.a))
    /\ pc' = "sorted"
    /\ UNCHANGED <<store, net, load, clientVars, uuid, clock, input, again>>

NextSort == ApplySort

SpecSort == InitSort /\ [][NextSort]_vars

IsMeeting(task) == TaskStr(task, "taskType") = Meeting

\* where a meeting time comes in the day: the place of the label among
\* MeetingLabels, and after all of them for anything else
DayPosition(task) ==
    LET label == TaskStr(task, "meetingTime")
    IN  IF \E i \in 1..Len(MeetingLabels) : MeetingLabels[i] = label
        THEN CHOOSE i \in 1..Len(MeetingLabels) : MeetingLabels[i] = label
        ELSE Len(MeetingLabels) + 1

\* where a name comes in the alphabet among A, AB, B
AlphaPosition(task) ==
    LET names == <<NameA, NameAB, NameB>>
    IN  CHOOSE i \in 1..3 : names[i] = TaskStr(task, "name")

\* the rule of the tie: two Meetings by start time, any other pair by name
InTieOrder(first, second) ==
    IF IsMeeting(first) /\ IsMeeting(second)
    THEN DayPosition(first) <= DayPosition(second)
    ELSE AlphaPosition(first) <= AlphaPosition(second)

\* C35: under sortBy = priority, two tasks of equal priority that are both
\* Meetings are listed by meeting start time (12:xx AM first in the day,
\* 12:xx PM at noon, an unparseable or missing time after every parseable
\* one), and any other pair of equal priority is listed by name.
C35_TieBreak ==
    pc = "sorted" =>
        \A i, j \in 1..Len(result.a) :
            i < j => InTieOrder(result.a[i], result.a[j])

\* the permutations of three places
Permutations3 == {p \in [1..3 -> 1..3] : \A i, j \in 1..3 : p[i] = p[j] => i = j}

\* C39: the comparison used under sortBy = priority is a consistent
\* ordering of three tasks of equal priority: if a sorts before b and b
\* before c then a sorts before c, and when no two of them compare equal
\* the sorted list is the same for every order of the input.
C39_ComparatorConsistent ==
    LET tasks == input.a
    IN  /\ \A p \in Permutations3 :
            (compareTasks(tasks[p[1]], tasks[p[2]]) < 0
                /\ compareTasks(tasks[p[2]], tasks[p[3]]) < 0)
            => compareTasks(tasks[p[1]], tasks[p[3]]) < 0
        /\ (\A i, j \in 1..3 : i # j => compareTasks(tasks[i], tasks[j]) # 0)
            => \A p \in Permutations3 :
                    sortTasks([k \in 1..3 |-> tasks[p[k]]]) = sortTasks(tasks)

----------------------------------------------------------------------------
(* The add-task form filled in any way and submitted *)

\* updateForm("meetingHour", value) for an hour and for the empty value
EditMeetingHour ==
    \E v \in {<<"1", "0">>, <<>>} : isStateLoaded /\ updateForm("meetingHour", v)

NextForm ==
    \/ ServerGet
    \/ LoadResolve
    \/ EditTaskName
    \/ EditTaskType
    \/ EditTaskDate
    \/ EditMeetingHour
    \/ SubmitForm
    \/ Deliver

SpecForm == Init /\ [][NextForm]_vars

\* the name is empty or holds white space only
IsBlank(s) == \A i \in 1..Len(s) : s[i] \in Whitespace

\* the form is for a Meeting and one part of the meeting time is not set
MeetingTimeMissing(f) ==
    f.taskType = Meeting /\ (f.meetingHour = <<>> \/ f.meetingMinute = <<>> \/ f.meetingAmPm = <<>>)

\* C36: submitTask with an empty or whitespace-only name or an empty date
\* does nothing; with taskType Meeting and no meeting time it leaves tasks
\* and selectedDate unchanged and issues no save; with valid input it
\* appends exactly one task with a fresh id, done = false, hidden = false,
\* and sets selectedDate to the task's date.
C36_SubmitValidates ==
    [][submitTask =>
        /\ ~IsBlank(form.taskName)
        /\ form.taskDate # <<>>
        /\ IF MeetingTimeMissing(form)
           THEN data' = data /\ net' = net
           ELSE /\ Len(Tasks') = Len(Tasks) + 1
                /\ SubSeq(Tasks', 1, Len(Tasks)) = Tasks
                /\ LET added == Tasks'[Len(Tasks')]
                   IN  /\ \A i \in 1..Len(Tasks) : TaskId(Tasks[i]) # TaskId(added)
                       /\ Prop(added, "id").t = "string"
                       /\ Prop(added, "done") = JBool(FALSE)
                       /\ Prop(added, "hidden") = JBool(FALSE)
                       /\ Prop(added, "date") = JStr(form.taskDate)
                       /\ data'.f.selectedDate = Prop(added, "date")
                /\ net' = net \cup {Json(data')}]_vars

\* a Meeting without an hour was refused with the alert, and a task dated
\* tomorrow was added after another one: tomorrow is the selected date
C36_Witness ==
    /\ alerted = MeetingAlert
    /\ Len(Tasks) = 2
    /\ Prop(Tasks[2], "date") = JStr(Tomorrow)
    /\ data.f.selectedDate = JStr(Tomorrow)
    /\ form.taskName = <<" ">>

----------------------------------------------------------------------------
(* Mutations made while earlier saves are still on their way *)

\* most save requests in flight at once
MaxInFlight == 2

\* persist does not wait for the save before: the handlers run with
\* requests in flight
SubmitWhileSaving ==
    isStateLoaded /\ uuid < MaxTasks /\ Cardinality(net) < MaxInFlight /\ submitTask

ToggleWhileSaving ==
    \E id \in VisibleIds :
        isStateLoaded /\ Cardinality(net) < MaxInFlight /\ toggleDone(id)

NextOverlap ==
    \/ ServerGet
    \/ LoadResolve
    \/ TypeTaskName
    \/ SubmitWhileSaving
    \/ ToggleWhileSaving
    \/ ShowAll
    \/ Deliver

SpecOverlap == Init /\ [][NextOverlap]_vars

\* C37: when the last of the saves issued completes, whatever the order
\* they arrived in, the stored document is the server normalization of the
\* in-memory state: the store never ends on an older document.
C37_StoreEndsOnLatest ==
    [][\A m \in net :
        (ServerPut(m) /\ net' = {}) =>
            store' = Json(normalizeState(Json(data), clock, uuid))]_vars

----------------------------------------------------------------------------
(* The form used while the load is pending *)

\* the form is rendered from the first render on: it is typed into, and
\* submitted, before the fetch of the load effect has resolved
TypeBeforeLoad == ~isStateLoaded /\ form.taskName = <<>> /\ updateForm("taskName", NameB)

SubmitBeforeLoad == ~isStateLoaded /\ uuid < MaxTasks /\ submitTask

NextEarly ==
    \/ ServerGet
    \/ LoadResolve
    \/ TypeTaskName
    \/ SubmitForm
    \/ TypeBeforeLoad
    \/ SubmitBeforeLoad
    \/ Deliver
    \/ Reopen

SpecEarly == Init /\ [][NextEarly]_vars

\* C38: the client issues no save before the initial load has resolved, so
\* that no document derived from the default in-memory state is written
\* over the stored one, and the state the load installs holds every task
\* the user added before.
C38_NoSaveBeforeLoad ==
    /\ [](~isStateLoaded => net = {})
    /\ [][LoadResolve => HeldIds \subseteq {TaskId(Tasks'[i]) : i \in 1..Len(Tasks')}]_vars

====
